---- MODULE Spec2Model ----
(***************************************************************************)
(* Provider abstraction and streaming-completion aggregation of the        *)
(* ollama-turbo-coder desktop client.                                      *)
(*                                                                         *)
(* Modelled sources:                                                       *)
(*   src/electron/providers/localOllamaProvider.js  LocalOllamaProvider    *)
(*   src/unnamed/part_003 (lines 322-726)           OllamaTurboProvider    *)
(*   src/unnamed/part_004                           legacy handleChatStream*)
(*   src/electron/ollamaHandler.js                  handleChatStream       *)
(*                                                                         *)
(* JavaScript runs the handlers on one cooperative event loop: the code    *)
(* between two awaits is one atomic step.  Every action below is one such  *)
(* step, every `event.sender.send` appends to the request's event log.     *)
(***************************************************************************)
EXTENDS Integers, Sequences, FiniteSets, TLC

(***************************************************************************)
(* Bounds of the model.                                                    *)
(***************************************************************************)
\* frames a backend delivers on one stream before it must end
MaxFrames == 3
\* frames read on each of two concurrent streams
MaxConcFrames == 1
\* last clock value (ms) the clock reaches by 1 ms ticks
MaxStreamNow == 1
\* last clock value (ms) the clock reaches by long jumps
MaxCacheNow == 61000
\* listModels / pullModel / deleteModel calls started in one run
MaxCalls == 3
\* calls into the provider factory started in one run
MaxRegOps == 3
\* validateProvider / listModels calls started in one run
MaxValOps == 2
\* frames read on each of two streams whose frames interleave
MaxPairFrames == 2

(***************************************************************************)
(* Program constants.                                                      *)
(***************************************************************************)
\* this.MODEL_CACHE_DURATION = 60000
MODEL_CACHE_DURATION == 60000

\* the upstream status code the cloud provider singles out
STATUS_BAD_GATEWAY == 502

(***************************************************************************)
(* Values.                                                                 *)
(***************************************************************************)
Providers == {"local-ollama", "ollama-turbo", "legacy"}

\* an absent / undefined / empty string: all are falsy in the code's tests
None == ""

ModelIds == {"llava", "llama3"}

\* model.details.families.includes('clip') at the local daemon
BackendVision(m) == m = "llava"

\* A structured (already parsed) argument value: a list of <<key, int>> pairs.
ObjEmpty == << >>
ObjA1 == << <<"a", 1>> >>

RECURSIVE JoinPairs(_)
JoinPairs(ps) ==
    IF ps = << >> THEN ""
    ELSE "\"" \o ps[1][1] \o "\":" \o ToString(ps[1][2])
         \o (IF Len(ps) > 1 THEN "," ELSE "") \o JoinPairs(Tail(ps))

\* JSON.stringify of a structured argument value
JSONStringify(obj) == "{" \o JoinPairs(obj) \o "}"

\* JSON.parse, for the JSON this model's texts can hold: an integer, or an
\* object whose members are "key":integer
Digits == {"0", "1", "2", "3", "4", "5", "6", "7", "8", "9"}

RECURSIVE DropDigits(_)
DropDigits(s) ==
    IF s # "" /\ Head(s) \in Digits THEN DropDigits(Tail(s)) ELSE s

\* the text behind the closing quote of a key, "" if the key is not closed
RECURSIVE DropKey(_)
DropKey(s) ==
    IF s = "" THEN ""
    ELSE IF Head(s) = "\"" THEN Tail(s) ELSE DropKey(Tail(s))

\* s, the text behind "{" or ",", is a member list closed by "}"
RECURSIVE MembersParse(_)
MembersParse(s) ==
    /\ s # ""
    /\ Head(s) = "\""
    /\ LET k == DropKey(Tail(s))
       IN /\ k # ""
          /\ Head(k) = ":"
          /\ LET v == Tail(k)
                 w == DropDigits(v)
             IN /\ w # v
                /\ w # ""
                /\ \/ w = "}"
                   \/ Head(w) = "," /\ MembersParse(Tail(w))

\* JSON.parse(s) returns (does not throw SyntaxError)
JSONParses(s) ==
    /\ s # ""
    /\ \/ DropDigits(s) = ""
       \/ Head(s) = "{" /\ (Tail(s) = "}" \/ MembersParse(Tail(s)))

\* function.arguments as a backend can deliver it
ArgNone == [kind |-> "none", text |-> "", obj |-> ObjEmpty]
ArgText(s) == [kind |-> "text", text |-> s, obj |-> ObjEmpty]
ArgObj(o) == [kind |-> "object", text |-> "", obj |-> o]

TextOpen == "{\"a\":"
TextClose == "1}"

ArgValues == {ArgNone, ArgText(TextOpen), ArgText(TextClose), ArgObj(ObjA1)}

\* `if (toolCall.function?.arguments)`: missing and "" are falsy, objects truthy
Truthy(arg) == \/ arg.kind = "object"
               \/ arg.kind = "text" /\ arg.text # ""

\* lines 275-283: the argumentsString computed for a new tool call
ArgumentsString(arg) ==
    IF Truthy(arg)
    THEN IF arg.kind = "text" THEN arg.text ELSE JSONStringify(arg.obj)
    ELSE ""

\* one element of part.message.tool_calls
Fragment(id, name, arg) == [id |-> id, name |-> name, arg |-> arg]

\* the fragments a frame can carry: two text fragments of one call "x", a
\* call delivered whole with and without an id, a call without arguments
FragOpen == Fragment("x", "f", ArgText(TextOpen))
FragClose == Fragment("x", "f", ArgText(TextClose))
FragWhole == Fragment("y", "g", ArgObj(ObjA1))
FragNoId == Fragment(None, "f", ArgObj(ObjA1))
FragNoArgs == Fragment("y", "g", ArgNone)

ToolLists ==
    { <<FragOpen>>, <<FragClose>>, <<FragWhole>>, <<FragNoId>>, <<FragNoArgs>> }

\* one frame (`part`) of the backend stream; the backend's last frame names
\* the reason the generation stopped (part.done_reason)
Frame(c, tcs, d) ==
    [content |-> c, tool_calls |-> tcs, done |-> d,
     done_reason |-> IF d THEN "stop" ELSE None]

\* a last frame of a generation cut off at the token limit
FrameCutOff == [Frame("b", << >>, TRUE) EXCEPT !.done_reason = "length"]

Frames ==
    {Frame(c, << >>, d) : c \in {"", "a", "b"}, d \in BOOLEAN}
    \cup {Frame("", tcs, d) : tcs \in ToolLists, d \in BOOLEAN}
    \cup {Frame("a", <<FragOpen, FragNoId>>, d) : d \in BOOLEAN}
    \cup {FrameCutOff}

\* the frames of the runs with two concurrent streams
SmallFrames ==
    { Frame("a", << >>, FALSE), Frame("b", << >>, TRUE),
      Frame("", <<FragNoId>>, FALSE) }

(***************************************************************************)
(* Errors a backend call can raise.                                        *)
(***************************************************************************)
Err(msg, code, status) == [message |-> msg, code |-> code, status_code |-> status]

ErrRefused == Err("connect ECONNREFUSED 127.0.0.1:11434", "ECONNREFUSED", 0)
ErrNoModel == Err("model not found, try pulling it first", "", 404)
ErrGateway == Err("Bad Gateway", "", STATUS_BAD_GATEWAY)
ErrReset == Err("socket hang up", "", 0)
ErrBlank == Err("", "", 500)

BackendErrors == {ErrRefused, ErrNoModel, ErrGateway, ErrReset, ErrBlank}

\* error.message?.includes('model not found')
IncludesModelNotFound(msg) == msg = ErrNoModel.message

\* the exception the cloud provider's catch block raises itself: it reads
\* modelToUse / apiParams, which are block-scoped to the try block
ReferenceErrorMessage == "modelToUse is not defined"

Msg502 == "Service temporarily unavailable (502). The model might be loading or under heavy load. Please try again in a moment."


(***************************************************************************)
(* Inputs of a chat request.                                               *)
(***************************************************************************)
\* settings: the provider selected, settings.model, and whether
\* settings.OLLAMA_API_KEY is a usable key
Settings(p, m, k) == [provider |-> p, model |-> m, key |-> k]

SettingsChoices ==
    { Settings("local-ollama", None, TRUE),
      Settings("local-ollama", "llama3", TRUE),
      Settings("ollama-turbo", None, TRUE),
      Settings("ollama-turbo", "llama3", TRUE),
      Settings("ollama-turbo", None, FALSE),
      Settings("legacy", None, TRUE),
      Settings("legacy", None, FALSE) }

\* modelContextSizes: model id -> vision_supported, for the ids it lists
CtxEmpty == [k \in {} |-> FALSE]
CtxDefault == [k \in {"default"} |-> FALSE]
CtxFull == [k \in {"default", "llava", "llama3"} |-> k = "llava"]
CtxAllVision == [k \in {"default", "llava", "llama3"} |-> TRUE]

CtxTables == {CtxEmpty, CtxDefault, CtxFull, CtxAllVision}

\* the shape of `messages`: plain text only, a user message with an image_url
\* part, or an assistant message whose tool-call arguments JSON.parse rejects
MsgShapes == {"text", "image", "badtool"}

\* messages.some(msg => ... part.type === 'image_url')
HasImages(msgs) == msgs = "image"

\* cleanMessages throws (JSON.parse of the replayed tool-call arguments)
CleanMessagesThrows(msgs) == msgs = "badtool"

SyntaxErrorMessage == "Unexpected end of JSON input"

ApiKeyMessage == "API key not configured. Please add your Ollama API key in settings."

(***************************************************************************)
(* Events sent to the caller (event.sender.send).                          *)
(***************************************************************************)
Event(t, id, c, tcs, has, e, fin) ==
    [type |-> t, id |-> id, content |-> c, tool_calls |-> tcs,
     has_tool_calls |-> has, error |-> e, finish_reason |-> fin]

StartEvent(id) == Event("chat-stream-start", id, "", << >>, FALSE, "", "")
ContentEvent(c) == Event("chat-stream-content", "", c, << >>, FALSE, "", "")
ToolCallsEvent(tcs) == Event("chat-stream-tool-calls", "", "", tcs, TRUE, "", "")
\* tool_calls: toolCalls.length > 0 ? toolCalls : undefined
CompleteEvent(c, tcs) ==
    Event("chat-stream-complete", "", c, tcs, Len(tcs) > 0, "", "stop")
ErrorEvent(e) == Event("chat-stream-error", "", "", << >>, FALSE, e, "")

Terminal(ev) == ev.type \in {"chat-stream-complete", "chat-stream-error"}

(***************************************************************************)
(* State.                                                                  *)
(***************************************************************************)
VARIABLES
    now,             \* Date.now(), ms since the session began
    settings,        \* the application settings of the session
    isInitialized,   \* provider -> this.isInitialized
    req,             \* request slot -> the chat request running on it
    cachedModels,    \* LocalOllamaProvider.cachedModels
    lastModelCheck,  \* LocalOllamaProvider.lastModelCheck
    installed,       \* the models the backend holds
    calls,           \* call slot -> a listModels / pullModel / deleteModel call
    started,         \* calls started so far
    history,         \* the listModels calls that returned, oldest first
    gen,             \* bookkeeping: which backend state a model list shows
    reg,             \* the ProviderFactory: its instances, map and calls
    calc,            \* a call of a synchronous function: arguments and result
    elic,            \* elicitationHandler.js: the pending map and the requests
    mcp,             \* the MCP handlers: resource and prompt cache, refresh
    modal            \* ElicitationModal: its state and the closures in use

vars == <<now, settings, isInitialized, req, cachedModels,
          lastModelCheck, installed, calls, started, history, gen, reg, calc,
          elic, mcp, modal>>

cacheVars == <<cachedModels, lastModelCheck>>
callVars == <<calls, started, history>>
backendVars == <<installed, gen>>
shellVars == <<elic, mcp, modal>>
providerVars == <<settings, isInitialized, req, cacheVars, backendVars,
                  callVars, reg>>

ReqIds == {1, 2}

\* no synchronous function is being followed
NoCalc == [pc |-> "none"]

\* this.cachedModels = null
NullModels == [isNull |-> TRUE, list |-> << >>]
Models(l) == [isNull |-> FALSE, list |-> l]

\* this.lastModelCheck = null
NullTime == -1

\* the backend's answer to list(): its models in its own order
ListOf(S) ==
    (IF "llava" \in S THEN <<"llava">> ELSE << >>)
    \o (IF "llama3" \in S THEN <<"llama3">> ELSE << >>)

\* a list query on its way: not sent, sent, answered
NoQuery == [pc |-> "none", now0 |-> 0, ok |-> FALSE, hasModels |-> FALSE,
            models |-> << >>, gen |-> 0]

\* no backend failure
NoErr == [message |-> "", code |-> "", status_code |-> -1]

\* A request: the locals of handleChatStream (modelArg, ctx, msgs, model,
\* content, toolCalls, streamId), where it stands (pc, lm), the events sent
\* (log), and a record of what happened to it: the list queries and chat
\* calls it sent, the models listed for it (avail), the frames it read, the
\* backend failure that ended it (cause), the exception it threw (thrown),
\* the way it returned (outcome), and the number of events it had sent when
\* its caller abandoned it (abandoned, -1 while the caller listens), and
\* the requests that were over when it arrived (after).
IdleReq ==
    [pc |-> "idle", provider |-> None, modelArg |-> None, ctx |-> CtxEmpty,
     msgs |-> "text", model |-> None, content |-> "", toolCalls |-> << >>,
     streamId |-> None, nframes |-> 0, log |-> << >>, lm |-> NoQuery,
     listQueries |-> 0, chatCalls |-> 0, outcome |-> None, thrown |-> None,
     avail |-> << >>, read |-> << >>, cause |-> NoErr, abandoned |-> -1,
     after |-> {}]

\* event.sender.send
Send(rq, ev) == [rq EXCEPT !.log = Append(@, ev)]

\* the handler returns
Return(rq, how) == [rq EXCEPT !.pc = "returned", !.outcome = how]

\* the provider's promise rejects with an exception carrying `msg`
Reject(rq, msg) == [rq EXCEPT !.pc = "rejected", !.thrown = msg]


(***************************************************************************)
(* The streaming loop, shared verbatim by the three handlers:              *)
(*   localOllamaProvider.js 258-310, part_003 563-615, part_004 177-229.   *)
(***************************************************************************)
\* accumulatedData.content += part.message.content
AppendContentLast(acc, c) == c

AppendContent(acc, c) == acc \o c

SynthIdClockOnly(t, n) == "tool_" \o ToString(t)

\* `tool_${Date.now()}_${accumulatedData.toolCalls.length}`
SynthId(t, n) == "tool_" \o ToString(t) \o "_" \o ToString(n)

\* accumulatedData.toolCalls.find(tc => tc.id === toolCall.id)
ExistingCall(toolCalls, id) == \E i \in 1..Len(toolCalls) : toolCalls[i].id = id

\* the record pushed for a fragment that matches no accumulated call
NewRecord(toolCalls, frag, t) ==
    [id |-> IF frag.id # None THEN frag.id ELSE SynthId(t, Len(toolCalls)),
     name |-> frag.name,
     arguments |-> ArgumentsString(frag.arg)]

\* for (const toolCall of part.message.tool_calls) { ... }
RECURSIVE Accumulate(_, _, _)
Accumulate(toolCalls, frags, t) ==
    IF frags = << >> THEN toolCalls
    ELSE Accumulate(
            IF ExistingCall(toolCalls, frags[1].id)
            THEN toolCalls
            ELSE Append(toolCalls, NewRecord(toolCalls, frags[1], t)),
            Tail(frags), t)

ToolCallsPayloadDelta(before, after) == SubSeq(after, Len(before) + 1, Len(after))

\* the tool_calls field of chat-stream-tool-calls: accumulatedData.toolCalls
ToolCallsPayload(before, after) == after

\* if (part.message?.content) { ... }
OnContent(rq, f) ==
    IF f.content # ""
    THEN Send([rq EXCEPT !.content = AppendContent(@, f.content)],
              ContentEvent(f.content))
    ELSE rq

\* if (part.message?.tool_calls?.length > 0) { ... }
OnToolCalls(rq, f, t) ==
    IF Len(f.tool_calls) > 0
    THEN LET after == Accumulate(rq.toolCalls, f.tool_calls, t)
         IN Send([rq EXCEPT !.toolCalls = after],
                 ToolCallsEvent(ToolCallsPayload(rq.toolCalls, after)))
    ELSE rq

\* if (part.done) { send complete; return }
OnDone(rq, f) ==
    IF f.done
    THEN Return(Send(rq, CompleteEvent(rq.content, rq.toolCalls)), "complete")
    ELSE rq

\* one iteration of `for await (const part of response)`
ProcessFrame(rq, f, t) ==
    OnDone(OnToolCalls(OnContent([rq EXCEPT !.nframes = @ + 1,
                                            !.read = Append(@, f)], f), f, t), f)

(***************************************************************************)
(* The catch blocks.                                                       *)
(***************************************************************************)
\* localOllamaProvider.js 315-321
LocalErrorMessage(e, modelArg) ==
    IF e.code = "ECONNREFUSED"
    THEN "Cannot connect to local Ollama. Please ensure Ollama is running (ollama serve)."
    ELSE IF IncludesModelNotFound(e.message)
    THEN "Model not found. Please pull it first using: ollama pull "
         \o (IF modelArg = None THEN "undefined" ELSE modelArg)
    ELSE e.message

\* localOllamaProvider.js 312-327
LocalCatch(rq, e) ==
    Return(Send(rq, ErrorEvent("Failed to get chat completion: "
                               \o LocalErrorMessage(e, rq.modelArg))),
           "error")

\* part_003 621-627: the message the catch block prepares
TurboErrorMessage(e) ==
    IF e.status_code = STATUS_BAD_GATEWAY THEN Msg502
    ELSE IF e.message # "" THEN e.message ELSE "Unknown error"

\* part_003 617-634: `modelToUse` and `apiParams` are declared with const inside
\* the try block, so reading them in the catch block raises a ReferenceError
\* before event.sender.send is reached (at 624 for a 502, else while the
\* argument of send at 629-633 is built): the promise rejects, nothing is sent.
TurboCatch(rq, e) == Reject(rq, ReferenceErrorMessage)

\* part_004 231-238
LegacyStreamCatch(rq, e) ==
    Return(Send(rq, ErrorEvent("Failed to get chat completion: "
                               \o (IF e.message # "" THEN e.message ELSE "Error"))),
           "error")

\* the catch block that handles an exception raised while the stream is open
Catch(rq, e) ==
    CASE rq.provider = "local-ollama" -> LocalCatch(rq, e)
      [] rq.provider = "ollama-turbo" -> TurboCatch(rq, e)
      [] OTHER -> LegacyStreamCatch(rq, e)


(***************************************************************************)
(* listModels of LocalOllamaProvider (localOllamaProvider.js 59-100).      *)
(***************************************************************************)
\* lines 67-68: cachedModels && lastModelCheck && (now - lastModelCheck) < TTL
\* (Date.now() is never 0, so lastModelCheck is truthy once it is set)
CacheFresh(t) ==
    /\ ~cachedModels.isNull
    /\ lastModelCheck # NullTime
    /\ (t - lastModelCheck) < MODEL_CACHE_DURATION

\* line 73: the query is sent; `now` was read at line 66
SentQuery(t) == [NoQuery EXCEPT !.pc = "sent", !.now0 = t]

\* how the backend can answer client.list(): its models, a body without a
\* models field, or a failure
AnswerKinds == {"models", "nomodels", "error"}

Answered(q, kind) ==
    [q EXCEPT !.pc = "answered",
              !.ok = kind # "error",
              !.hasModels = kind = "models",
              !.models = IF kind = "models" THEN ListOf(installed) ELSE << >>,
              !.gen = gen.backend]

\* lines 75-95 and 96-99: what listModels returns once the query is answered
ListResult(q) == IF q.ok /\ q.hasModels THEN q.models ELSE << >>

\* lines 91-93 are reached
WritesCache(q) == q.ok /\ q.hasModels

ListModelsThrowsOnError(q) == ~q.ok

\* lines 96-99 and part_003 439-445: the catch block of listModels logs the
\* failure and returns [] (falls through to `return []`); nothing is rethrown
ListModelsThrows(q) == FALSE

\* part_003 382-446: the cloud provider's listModels keeps no cache; it
\* returns the mapped models of the answer, or [] after a failure
TurboListResult(q) == IF q.ok /\ q.hasModels THEN q.models ELSE << >>

(***************************************************************************)
(* handleChatStream up to the first frame.                                 *)
(***************************************************************************)
StartEventsNone(id) == << >>

\* lines 248-252: the events sent when the stream is opened
StartEvents(id) == <<StartEvent(id)>>

\* lines 240-255: build accumulatedData, send start, call client.chat.
\* `ctx` and `msgs` are not read again and are dropped from the state.
OpenStream(rq, prefix, model, t) ==
    LET id == prefix \o ToString(t)
    IN [rq EXCEPT !.pc = "chat_wait", !.model = model, !.streamId = id,
                  !.content = "", !.toolCalls = << >>,
                  !.log = @ \o StartEvents(id),
                  !.chatCalls = @ + 1,
                  !.ctx = CtxEmpty, !.msgs = "text"]

Lookup(ctx, k) == k \in DOMAIN ctx

\* localOllamaProvider.js 159: model || this.settings.model || availableModels[0]?.id
LocalModelToUse(rq, avail) ==
    IF rq.modelArg # None THEN rq.modelArg
    ELSE IF settings.model # None THEN settings.model
    ELSE IF Len(avail) > 0 THEN avail[1] ELSE None

ModelExistsAlways(avail, m) == TRUE

\* line 169: availableModels.some(m => m.id === modelToUse)
ModelExists(avail, m) == \E i \in 1..Len(avail) : avail[i] = m

\* line 172: the text of the error for a model that is not listed
NotFoundLocally(m) ==
    "Model " \o m \o " not found locally. Please pull it first using: ollama pull " \o m

\* lines 177-179 and the test of line 188:
\* modelInfo.vision_supported || modelInfo.vision
LocalVision(rq, m) ==
    IF Lookup(rq.ctx, m) THEN rq.ctx[m] ELSE BackendVision(m)

\* localOllamaProvider.js 159-255, with availableModels in hand
LocalProceed(rq0, avail, t) ==
    LET rq == [rq0 EXCEPT !.avail = avail]
        m == LocalModelToUse(rq, avail)
    IN IF m = None
       THEN Return(Send(rq, ErrorEvent(
                "No models available. Please pull a model first using: ollama pull <model-name>")),
                "error")
       ELSE IF ~ModelExists(avail, m)
       THEN Return(Send([rq EXCEPT !.model = m], ErrorEvent(NotFoundLocally(m))),
                "error")
       ELSE IF HasImages(rq.msgs) /\ ~LocalVision(rq, m)
       THEN Return(Send([rq EXCEPT !.model = m], ErrorEvent(
                "The selected model (" \o m \o ") does not support image inputs. Please select a vision-capable model.")),
                "unsupported")
       ELSE IF CleanMessagesThrows(rq.msgs)
       THEN LocalCatch([rq EXCEPT !.model = m], Err(SyntaxErrorMessage, "", 0))
       ELSE OpenStream(rq, "local_ollama_", m, t)

\* part_003 454: model || this.settings.model || ""
TurboModelToUse(rq) ==
    IF rq.modelArg # None THEN rq.modelArg ELSE settings.model

\* part_003 455-458: modelContextSizes[modelToUse] || modelContextSizes['default']
\* || { vision_supported: false }
CtxVision(ctx, m) ==
    IF Lookup(ctx, m) THEN ctx[m]
    ELSE IF Lookup(ctx, "default") THEN ctx["default"] ELSE FALSE

\* part_003 448-560
TurboProceed(rq, t) ==
    LET m == TurboModelToUse(rq)
    IN IF HasImages(rq.msgs) /\ ~CtxVision(rq.ctx, m)
       THEN Return(Send([rq EXCEPT !.model = m], ErrorEvent(
                "The selected model (" \o m \o ") does not support image inputs. Please select a vision-capable model.")),
                "unsupported")
       ELSE IF CleanMessagesThrows(rq.msgs)
       THEN TurboCatch([rq EXCEPT !.model = m], Err(SyntaxErrorMessage, "", 0))
       ELSE OpenStream(rq, "ollama_turbo_", m, t)

\* part_004 11: model || settings.model || "gpt-oss:120b"
LegacyModelToUse(rq) ==
    IF rq.modelArg # None THEN rq.modelArg
    ELSE IF settings.model # None THEN settings.model ELSE "gpt-oss:120b"

\* part_004 133-174 and 240-245
LegacyProceed(rq, t) ==
    LET m == LegacyModelToUse(rq)
    IN IF ~settings.key
       THEN Return(Send(rq, ErrorEvent(ApiKeyMessage)), "error")
       ELSE IF HasImages(rq.msgs) /\ ~CtxVision(rq.ctx, m)
       THEN Return(Send([rq EXCEPT !.model = m], ErrorEvent(
                "The selected model (" \o m \o ") does not support image inputs. Please select a vision-capable model.")),
                "unsupported")
       ELSE IF CleanMessagesThrows(rq.msgs)
       THEN Return(Send([rq EXCEPT !.model = m], ErrorEvent(SyntaxErrorMessage)), "error")
       ELSE OpenStream(rq, "ollama_", m, t)


(***************************************************************************)
(* Actions of a chat request.                                              *)
(***************************************************************************)
\* ollamaHandler.js 22-27: error.message || `Chat error: ${error}`
HandlerErrorText(msg) == IF msg # "" THEN msg ELSE "Chat error: Error"

\* A chat request arrives.  For the two providers it enters through
\* ollamaHandler.handleChatStream (11-28): getProvider initializes the
\* provider (part_003 342-355 throws without an API key), then the provider's
\* handleChatStream runs to its first await.  The legacy handler (part_004)
\* is its own entry point.
ChatStart(r, modelArg, ctx, msgs) ==
    /\ req[r].pc = "idle"
    /\ LET p == settings.provider
           base == [IdleReq EXCEPT !.provider = p, !.modelArg = modelArg,
                                   !.ctx = ctx, !.msgs = msgs,
                                   !.after = {q \in ReqIds : req[q].pc = "returned"}]
       IN CASE p = "legacy" ->
                 /\ req' = [req EXCEPT ![r] = LegacyProceed(base, now)]
                 /\ UNCHANGED isInitialized
            [] p = "ollama-turbo" /\ ~settings.key ->
                 /\ req' = [req EXCEPT ![r] =
                        Return(Send(base, ErrorEvent(HandlerErrorText(ApiKeyMessage))),
                               "error")]
                 /\ UNCHANGED isInitialized
            [] p = "ollama-turbo" /\ settings.key ->
                 /\ req' = [req EXCEPT ![r] = TurboProceed(base, now)]
                 /\ isInitialized' = [isInitialized EXCEPT ![p] = TRUE]
            [] OTHER ->
                 /\ req' = [req EXCEPT ![r] =
                        IF CacheFresh(now)
                        THEN LocalProceed(base, cachedModels.list, now)
                        ELSE [base EXCEPT !.pc = "listing",
                                          !.lm = SentQuery(now),
                                          !.listQueries = @ + 1]]
                 /\ isInitialized' = [isInitialized EXCEPT ![p] = TRUE]
    /\ UNCHANGED <<shellVars, calc, now, settings, reg, cacheVars, backendVars, callVars>>

\* the backend answers the list query of a chat request
ReqListAnswer(r, kind) ==
    /\ req[r].pc = "listing"
    /\ req[r].lm.pc = "sent"
    /\ req' = [req EXCEPT ![r].lm = Answered(@, kind)]
    /\ UNCHANGED <<shellVars, calc, now, settings, reg, isInitialized, cacheVars,
                   backendVars, callVars>>

\* `await this.listModels()` resumes: localOllamaProvider.js 75-99, then 159-255
ReqListResume(r) ==
    /\ req[r].pc = "listing"
    /\ req[r].lm.pc = "answered"
    /\ LET q == req[r].lm
       IN /\ IF WritesCache(q)
             THEN /\ cachedModels' = Models(q.models)
                  /\ lastModelCheck' = q.now0
                  /\ gen' = [gen EXCEPT !.cached = q.gen]
             ELSE UNCHANGED <<cachedModels, lastModelCheck, gen>>
          /\ req' = [req EXCEPT ![r] =
                LocalProceed([req[r] EXCEPT !.lm = NoQuery], ListResult(q), now)]
    /\ UNCHANGED <<shellVars, calc, now, settings, reg, isInitialized, installed, callVars>>

\* `await this.client.chat(apiParams)` resolves with the stream
ChatAccept(r) ==
    /\ req[r].pc = "chat_wait"
    /\ req' = [req EXCEPT ![r].pc = "streaming"]
    /\ UNCHANGED <<shellVars, calc, now, settings, reg, isInitialized, cacheVars,
                   backendVars, callVars>>

\* `await this.client.chat(apiParams)` rejects
ChatFail(r, e) ==
    /\ req[r].pc = "chat_wait"
    /\ req' = [req EXCEPT ![r] = Catch([@ EXCEPT !.cause = e], e)]
    /\ UNCHANGED <<shellVars, calc, now, settings, reg, isInitialized, cacheVars,
                   backendVars, callVars>>

AccumulatedDataShared(rqs, r) ==
    [content |-> rqs[1].content, toolCalls |-> rqs[1].toolCalls]

\* lines 241-246: `const accumulatedData = { content: "", toolCalls: [] }` is a
\* local of the call, so the accumulator a stream works on is its own
AccumulatedData(rqs, r) ==
    [content |-> rqs[r].content, toolCalls |-> rqs[r].toolCalls]

\* the stream yields its next frame
ReadFrame(r, f) ==
    /\ req[r].pc = "streaming"
    /\ req[r].nframes < MaxFrames
    /\ LET acc == AccumulatedData(req, r)
       IN req' = [req EXCEPT ![r] =
                ProcessFrame([@ EXCEPT !.content = acc.content,
                                       !.toolCalls = acc.toolCalls], f, now)]
    /\ UNCHANGED <<shellVars, calc, now, settings, reg, isInitialized, cacheVars,
                   backendVars, callVars>>

\* the stream ends with no frame marked done: the for-await loop is left and
\* handleChatStream returns (localOllamaProvider.js 310-311, part_003 615-616)
StreamEnd(r) ==
    /\ req[r].pc = "streaming"
    /\ req' = [req EXCEPT ![r] = Return(@, "exhausted")]
    /\ UNCHANGED <<shellVars, calc, now, settings, reg, isInitialized, cacheVars,
                   backendVars, callVars>>

\* the stream fails while it is read
StreamFail(r, e) ==
    /\ req[r].pc = "streaming"
    /\ req' = [req EXCEPT ![r] = Catch([@ EXCEPT !.cause = e], e)]
    /\ UNCHANGED <<shellVars, calc, now, settings, reg, isInitialized, cacheVars,
                   backendVars, callVars>>

\* ollamaHandler.js 22-27: the provider's promise rejected
HandlerCatch(r) ==
    /\ req[r].pc = "rejected"
    /\ req' = [req EXCEPT ![r] =
            Return(Send(@, ErrorEvent(HandlerErrorText(req[r].thrown))), "error")]
    /\ UNCHANGED <<shellVars, calc, now, settings, reg, isInitialized, cacheVars,
                   backendVars, callVars>>

\* The caller of a stream that is open abandons it: it stops listening.
\* handleChatStream takes no signal for this and reads none in its loop
\* (localOllamaProvider.js 151, 258-310; part_003 448, 563-615): nothing of
\* the request changes but the record that the caller is gone.
Abandon(r) ==
    /\ req[r].pc \in {"chat_wait", "streaming"}
    /\ req[r].abandoned = -1
    /\ req' = [req EXCEPT ![r].abandoned = Len(req[r].log)]
    /\ UNCHANGED <<shellVars, calc, now, settings, reg, isInitialized, cacheVars,
                   backendVars, callVars>>

\* a millisecond passes
Tick ==
    /\ now < MaxStreamNow
    /\ now' = now + 1
    /\ UNCHANGED <<shellVars, calc, settings, reg, isInitialized, req, cacheVars,
                   backendVars, callVars>>

(***************************************************************************)
(* The ProviderFactory (localOllamaProvider.js 414-591) and the providers'  *)
(* initialize / validateConnection / cleanup.                               *)
(***************************************************************************)
\* A settings object: its own properties in insertion order, as <<key, value>>
Placeholder == "<replace me>"

SLocal == << <<"provider", "local-ollama">> >>
SLocalModel == << <<"provider", "local-ollama">>, <<"model", "llama3">> >>
STurbo == << <<"provider", "ollama-turbo">>, <<"OLLAMA_API_KEY", "sk-1">> >>
STurboNoKey == << <<"provider", "ollama-turbo">> >>
STurboPlaceholder ==
    << <<"provider", "ollama-turbo">>, <<"OLLAMA_API_KEY", Placeholder>> >>
SUnknown == << <<"provider", "groq">> >>

RegSettings ==
    {SLocal, SLocalModel, STurbo, STurboNoKey, STurboPlaceholder, SUnknown}

\* settings[k], None if the object has no such property
RECURSIVE Field(_, _)
Field(st, k) ==
    IF st = << >> THEN None
    ELSE IF st[1][1] = k THEN st[1][2] ELSE Field(Tail(st), k)

RECURSIVE JoinFields(_)
JoinFields(st) ==
    IF st = << >> THEN ""
    ELSE "\"" \o st[1][1] \o "\":\"" \o st[1][2] \o "\""
         \o (IF Len(st) > 1 THEN "," ELSE "") \o JoinFields(Tail(st))

\* JSON.stringify(settings)
StringifySettings(st) == "{" \o JoinFields(st) \o "}"

\* ollamaHandler.js 14: settings.provider || 'ollama-turbo'
ProviderIdOf(st) ==
    IF Field(st, "provider") # None THEN Field(st, "provider") ELSE "ollama-turbo"

\* ProviderFactory.availableProviders
AvailableProviders == {"ollama-turbo", "local-ollama"}

\* line 469: `${id}_${JSON.stringify(settings)}`
CacheKey(id, st) == id \o "_" \o StringifySettings(st)

KeyUsableAnyText(k) == k # None

\* part_003 343: !(!this.apiKey || this.apiKey === "<replace me>")
KeyUsable(k) == k # None /\ k # Placeholder

\* new ProviderClass(settings): BaseProvider's and the subclass' constructor
NewInstance(pid, st) ==
    [pid |-> pid, st |-> st, apiKey |-> Field(st, "OLLAMA_API_KEY"),
     hasClient |-> FALSE, isInitialized |-> FALSE, inits |-> 0,
     cleaned |-> 0, cache |-> NullModels]

\* initialize() throws: part_003 343-345
InitializeError(inst) ==
    IF inst.pid = "ollama-turbo" /\ ~KeyUsable(inst.apiKey)
    THEN ApiKeyMessage ELSE None

\* initialize() when it does not throw: localOllamaProvider.js 18-24,
\* part_003 347-354
Initialize(inst) ==
    [inst EXCEPT !.hasClient = TRUE, !.isInitialized = TRUE,
                 !.inits = @ + 1, !.cleaned = 0]

CleanInstanceToggle(inst) ==
    [inst EXCEPT !.hasClient = ~@, !.isInitialized = ~@,
                 !.cleaned = IF @ < 2 THEN @ + 1 ELSE @]

\* BaseProvider.cleanup (part_002 112-118); `cleaned` counts the cleanups
\* since the instance was last initialized
CleanInstance(inst) ==
    [inst EXCEPT !.hasClient = FALSE, !.isInitialized = FALSE,
                 !.cleaned = IF @ < 2 THEN @ + 1 ELSE @]

\* the slots of the calls into the factory that are under way
RegIds == {1, 2}

RegKinds == {"get", "validate", "list", "chat"}

\* a call into the factory: which entry point (kind), its settings, the
\* instance it holds, what initialize() did for it, its list query, and its
\* place among the calls (ord) and the calls under way when it began (open);
\* for cleanup, the entries of the map visited (pos) and whether it began
\* right after another cleanup had finished
IdleOp ==
    [pc |-> "idle", kind |-> None, st |-> << >>, inst |-> 0, initErr |-> None,
     created |-> FALSE, lm |-> NoQuery, err |-> NoErr, queries |-> 0,
     ord |-> 0, open |-> 0, pos |-> 0, inRow |-> FALSE]

\* the calls under way
OpenOps(R) == Cardinality({d \in RegIds : R.ops[d].pc # "idle"})

\* the factory after its constructor (lines 422-438), with no call under way.
\* providers is the Map in insertion order; current = 0 is null.  clears
\* counts providers.clear(); cleanRun counts the cleanups that finished in a
\* row with nothing else done in between, snap is the state the first left.
RegInit ==
    [insts |-> << >>, providers |-> << >>, current |-> 0,
     ops |-> [c \in RegIds |-> IdleOp], done |-> << >>, nops |-> 0,
     clears |-> 0, cleanRun |-> 0,
     snap |-> [insts |-> << >>, providers |-> << >>, current |-> 0]]

\* what a cleanup leaves behind
Proj(R) == [insts |-> R.insts, providers |-> R.providers, current |-> R.current]

CachedNever(providers, key) == FALSE

\* line 470: this.providers.has(cacheKey)
Cached(providers, key) ==
    \E i \in 1..Len(providers) : providers[i].key = key

\* line 471: this.providers.get(cacheKey)
InstanceOf(providers, key) ==
    providers[CHOOSE i \in 1..Len(providers) : providers[i].key = key].inst

\* line 479: this.providers.set(cacheKey, provider)
Put(providers, key, i) ==
    IF Cached(providers, key)
    THEN [j \in 1..Len(providers) |->
            IF providers[j].key = key THEN [key |-> key, inst |-> i]
            ELSE providers[j]]
    ELSE Append(providers, [key |-> key, inst |-> i])

\* what a call that is over gave its caller
Result(R, op, threw, error, success, list, log) ==
    [kind |-> op.kind, st |-> op.st, inst |-> op.inst, created |-> op.created,
     threw |-> threw, error |-> error, success |-> success, list |-> list,
     log |-> log, queries |-> op.queries, ord |-> op.ord, seen |-> R.nops,
     clears |-> R.clears, alone |-> op.open = 0 /\ R.nops = op.ord]

Finish(R, c, d) == [R EXCEPT !.ops[c] = IdleOp, !.done = Append(@, d)]

ValidateRethrow(msg) == [success |-> FALSE, error |-> msg, threw |-> TRUE]

\* validateProvider's catch (lines 519-524)
ValidateCatch(msg) ==
    [success |-> FALSE,
     error |-> IF msg # "" THEN msg ELSE "Failed to validate provider",
     threw |-> FALSE]

\* getProvider threw `msg`: the caller of a bare getProvider gets the
\* exception; validateProvider (519-524), listModelsForProvider (537-540) and
\* ollamaHandler.handleChatStream (22-27) catch it
Caught(R, c, msg) ==
    LET op == R.ops[c]
    IN CASE op.kind = "get" ->
              Finish(R, c, Result(R, op, TRUE, msg, FALSE, << >>, << >>))
         [] op.kind = "validate" ->
              LET v == ValidateCatch(msg)
              IN Finish(R, c, Result(R, op, v.threw, v.error, v.success, << >>, << >>))
         [] op.kind = "list" ->
              Finish(R, c, Result(R, op, FALSE, "", FALSE, << >>, << >>))
         [] OTHER ->
              Finish(R, c, Result(R, op, FALSE, HandlerErrorText(msg), FALSE, << >>,
                                  <<ErrorEvent(HandlerErrorText(msg))>>))

\* getProvider returned instance i: the caller goes on.  validateConnection
\* and listModels initialize the instance if it is not (26-33, 59-64), then
\* query the backend; the local listModels answers from its cache if it can
\* (no time passes here, the cache does not expire); handleChatStream hands
\* the request to the provider.
Proceed(R, c, i) ==
    LET op == [R.ops[c] EXCEPT !.inst = i]
        inst == R.insts[i]
    IN IF op.kind \in {"get", "chat"}
       THEN Finish(R, c, Result(R, op, FALSE, "", TRUE, << >>, << >>))
       ELSE IF op.kind = "list" /\ inst.pid = "local-ollama" /\ ~inst.cache.isNull
       THEN Finish([R EXCEPT !.insts[i] =
                        IF inst.isInitialized THEN @ ELSE Initialize(@)],
                   c, Result(R, op, FALSE, "", TRUE, inst.cache.list, << >>))
       ELSE [R EXCEPT !.insts[i] = IF inst.isInitialized THEN @ ELSE Initialize(@),
                      !.ops[c] = [op EXCEPT !.pc = "list_wait",
                                            !.lm = SentQuery(now),
                                            !.queries = @ + 1]]

\* validateConnection of LocalOllamaProvider once the list query is answered
\* (lines 33-56)
LocalValidate(q, e) ==
    IF q.ok
    THEN IF q.hasModels THEN [success |-> TRUE, error |-> ""]
         ELSE [success |-> FALSE,
               error |-> "Local Ollama server is not responding. Please ensure Ollama is running locally."]
    ELSE IF e.code = "ECONNREFUSED"
    THEN [success |-> FALSE,
          error |-> "Cannot connect to local Ollama server. Please ensure Ollama is running (ollama serve)."]
    ELSE [success |-> FALSE,
          error |-> IF e.message # "" THEN e.message
                    ELSE "Failed to connect to local Ollama server"]

\* validateConnection of OllamaTurboProvider (part_003 364-379)
TurboValidate(q, e) ==
    IF q.ok
    THEN IF q.hasModels /\ Len(q.models) > 0 THEN [success |-> TRUE, error |-> ""]
         ELSE [success |-> FALSE, error |-> "No models available"]
    ELSE [success |-> FALSE,
          error |-> IF e.message # "" THEN e.message
                    ELSE "Failed to connect to Ollama Turbo"]

\* the errors a list query of these calls fails with
RegErrors == {ErrRefused, ErrBlank}

\* a call slot is taken in order
FreeRegSlot(c) ==
    /\ reg.ops[c].pc = "idle"
    /\ \A d \in RegIds : d < c => reg.ops[d].pc # "idle"

\* A call enters: getProvider (459-477), called bare or from validateProvider
\* (515-518), listModelsForProvider (533-536) or ollamaHandler.handleChatStream
\* (11-15).  An unknown id throws; a cached instance is returned; else an
\* instance is built and initialize() is awaited.
RegStart(c, kind, st) ==
    /\ FreeRegSlot(c)
    /\ reg.nops < MaxRegOps
    /\ LET pid == ProviderIdOf(st)
           key == CacheKey(pid, st)
           R0 == [reg EXCEPT !.nops = @ + 1, !.cleanRun = 0,
                             !.ops[c] = [IdleOp EXCEPT !.kind = kind, !.st = st,
                                                       !.ord = reg.nops + 1,
                                                       !.open = OpenOps(reg)]]
       IN reg' =
            IF pid \notin AvailableProviders
            THEN Caught(R0, c, "Unknown provider: " \o pid)
            ELSE IF Cached(R0.providers, key)
            THEN Proceed(R0, c, InstanceOf(R0.providers, key))
            ELSE LET inst0 == NewInstance(pid, st)
                     err == InitializeError(inst0)
                 IN [R0 EXCEPT !.insts = Append(@, IF err = None THEN Initialize(inst0)
                                                   ELSE inst0),
                               !.ops[c].pc = "init_wait",
                               !.ops[c].inst = Len(R0.insts) + 1,
                               !.ops[c].initErr = err,
                               !.ops[c].created = TRUE]
    /\ UNCHANGED <<shellVars, calc, now, settings, isInitialized, req, cacheVars, backendVars,
                   callVars>>

\* `await provider.initialize()` resumes in getProvider (478-486): the
\* instance is stored and made current, or the exception is thrown on
RegInitResume(c) ==
    /\ reg.ops[c].pc = "init_wait"
    /\ LET op == reg.ops[c]
           key == CacheKey(ProviderIdOf(op.st), op.st)
       IN reg' =
            IF op.initErr = None
            THEN Proceed([reg EXCEPT !.providers = Put(@, key, op.inst),
                                     !.current = op.inst,
                                     !.cleanRun = 0],
                         c, op.inst)
            ELSE Caught([reg EXCEPT !.cleanRun = 0], c, op.initErr)
    /\ UNCHANGED <<shellVars, calc, now, settings, isInitialized, req, cacheVars, backendVars,
                   callVars>>

\* the backend answers the list query of validateConnection / listModels
RegListAnswer(c, kind, e) ==
    /\ reg.ops[c].pc = "list_wait"
    /\ reg.ops[c].lm.pc = "sent"
    /\ kind # "error" => e = ErrRefused
    /\ reg' = [reg EXCEPT !.ops[c].lm = Answered(@, kind),
                          !.ops[c].err = IF kind = "error" THEN e ELSE NoErr,
                          !.cleanRun = 0]
    /\ UNCHANGED <<shellVars, calc, now, settings, isInitialized, req, cacheVars, backendVars,
                   callVars>>

\* `await this.client.list()` resumes in validateConnection (35-56, part_003
\* 366-379) or listModels (75-99, part_003 391-445)
RegListResume(c) ==
    /\ reg.ops[c].pc = "list_wait"
    /\ reg.ops[c].lm.pc = "answered"
    /\ LET op == reg.ops[c]
           q == op.lm
           i == op.inst
           local == reg.insts[i].pid = "local-ollama"
           R0 == [reg EXCEPT !.cleanRun = 0]
       IN reg' =
            IF op.kind = "validate"
            THEN LET v == IF local THEN LocalValidate(q, op.err)
                          ELSE TurboValidate(q, op.err)
                 IN Finish(R0, c, Result(R0, op, FALSE, v.error, v.success,
                                         << >>, << >>))
            ELSE Finish([R0 EXCEPT !.insts[i].cache =
                             IF local /\ WritesCache(q) THEN Models(q.models) ELSE @],
                        c, Result(R0, op, ListModelsThrows(q), "", q.ok,
                                  IF local THEN ListResult(q) ELSE TurboListResult(q),
                                  << >>))
    /\ UNCHANGED <<shellVars, calc, now, settings, isInitialized, req, cacheVars, backendVars,
                   callVars>>

\* ProviderFactory.cleanup (546-556) from where it stands to its next await:
\* the next provider of the map is cleaned up, or, the map exhausted, the map
\* is cleared and the current provider forgotten
CleanupAdvance(R, c) ==
    LET op == R.ops[c]
    IN IF op.pos < Len(R.providers)
       THEN [R EXCEPT !.insts[R.providers[op.pos + 1].inst] = CleanInstance(@),
                      !.ops[c].pos = @ + 1,
                      !.ops[c].pc = "cleaning",
                      !.cleanRun = 0]
       ELSE LET second == op.inRow /\ R.cleanRun >= 1
                R1 == [R EXCEPT !.providers = << >>, !.current = 0,
                                !.clears = @ + 1,
                                !.cleanRun = IF second THEN 2 ELSE 1]
            IN Finish([R1 EXCEPT !.snap = IF second THEN @ ELSE Proj(R1)],
                      c, Result(R1, op, FALSE, "", TRUE, << >>, << >>))

\* ProviderFactory.cleanup is called
RegCleanupStart(c) ==
    /\ FreeRegSlot(c)
    /\ reg.nops < MaxRegOps
    /\ reg' = CleanupAdvance(
                [reg EXCEPT !.nops = @ + 1,
                            !.ops[c] = [IdleOp EXCEPT !.kind = "cleanup",
                                                      !.ord = reg.nops + 1,
                                                      !.open = OpenOps(reg),
                                                      !.inRow = reg.cleanRun >= 1]],
                c)
    /\ UNCHANGED <<shellVars, calc, now, settings, isInitialized, req, cacheVars, backendVars,
                   callVars>>

\* `await provider.cleanup()` resumes in ProviderFactory.cleanup
RegCleanupResume(c) ==
    /\ reg.ops[c].pc = "cleaning"
    /\ reg' = CleanupAdvance(reg, c)
    /\ UNCHANGED <<shellVars, calc, now, settings, isInitialized, req, cacheVars, backendVars,
                   callVars>>

\* a holder of a provider calls its cleanup() (part_002 112-118)
RegProviderCleanup(i) ==
    /\ i \in 1..Len(reg.insts)
    /\ reg.nops < MaxRegOps
    /\ reg.insts[i].cleaned < 2
    /\ reg' = [reg EXCEPT !.insts[i] = CleanInstance(@), !.nops = @ + 1,
                          !.cleanRun = 0]
    /\ UNCHANGED <<shellVars, calc, now, settings, isInitialized, req, cacheVars, backendVars,
                   callVars>>

(***************************************************************************)
(* Specification of one request slot.                                      *)
(***************************************************************************)
IdleCall ==
    [pc |-> "idle", op |-> None, model |-> None, lm |-> NoQuery,
     ok |-> FALSE, acked |-> 0, ord |-> 0]

CallIds == {1, 2}

\* the models the backend may hold when the session begins
InstalledChoices(p) ==
    IF p = "local-ollama" THEN SUBSET ModelIds ELSE {ModelIds}

\* nothing of the MCP side has happened
NoShell == [pc |-> "none"]

InitProviders ==
    /\ now = 0
    /\ isInitialized = [p \in Providers |-> FALSE]
    /\ req = [r \in ReqIds |-> IdleReq]
    /\ cachedModels = NullModels
    /\ lastModelCheck = NullTime
    /\ calls = [c \in CallIds |-> IdleCall]
    /\ started = 0
    /\ history = << >>
    /\ gen = [backend |-> 0, cached |-> 0, acked |-> 0]
    /\ reg = RegInit

InitState ==
    /\ InitProviders
    /\ elic = NoShell
    /\ mcp = NoShell
    /\ modal = NoShell

InitCommon ==
    /\ InitState
    /\ calc = NoCalc

Init ==
    /\ InitCommon
    /\ settings \in SettingsChoices
    /\ installed \in InstalledChoices(settings.provider)

Next ==
    \/ \E m \in ModelIds \cup {None}, ctx \in CtxTables, msgs \in MsgShapes :
          ChatStart(1, m, ctx, msgs)
    \/ \E kind \in AnswerKinds : ReqListAnswer(1, kind)
    \/ ReqListResume(1)
    \/ ChatAccept(1)
    \/ \E e \in BackendErrors : ChatFail(1, e)
    \/ \E f \in Frames : ReadFrame(1, f)
    \/ StreamEnd(1)
    \/ \E e \in BackendErrors : StreamFail(1, e)
    \/ HandlerCatch(1)

Spec == Init /\ [][Next]_vars

(***************************************************************************)
(* Specification of two request slots: the requests may overlap or follow  *)
(* one another, on a running clock, with short streams of plain frames.    *)
(***************************************************************************)
ConcErrors == {ErrGateway}

ConcCtx == {CtxEmpty}

InitConc ==
    /\ InitCommon
    /\ settings \in {st \in SettingsChoices : st.key}
    /\ installed \in InstalledChoices(settings.provider)

NextConc ==
    \/ \E r \in ReqIds, m \in {None, "llama3"}, ctx \in ConcCtx,
          msgs \in {"text", "image"} : ChatStart(r, m, ctx, msgs)
    \/ \E r \in ReqIds, kind \in AnswerKinds : ReqListAnswer(r, kind)
    \/ \E r \in ReqIds : ReqListResume(r)
    \/ \E r \in ReqIds : ChatAccept(r)
    \/ \E r \in ReqIds, e \in ConcErrors : ChatFail(r, e)
    \/ \E r \in ReqIds, f \in SmallFrames :
          req[r].nframes < MaxConcFrames /\ ReadFrame(r, f)
    \/ \E r \in ReqIds : StreamEnd(r)
    \/ \E r \in ReqIds, e \in ConcErrors : StreamFail(r, e)
    \/ \E r \in ReqIds : HandlerCatch(r)
    \/ Tick

SpecConc == InitConc /\ [][NextConc]_vars


(***************************************************************************)
(* Specification of two chat requests whose frames interleave, entered     *)
(* through ollamaHandler.handleChatStream: getProvider (lines 11-15), then *)
(* the provider's handleChatStream (line 20).                              *)
(***************************************************************************)
PairFrames ==
    { Frame("a", << >>, FALSE), Frame("b", << >>, TRUE),
      Frame("", <<FragOpen>>, FALSE), Frame("", <<FragNoId>>, FALSE),
      Frame("", <<FragWhole>>, TRUE) }

\* the settings object the handler passes to getProvider
PairSettings == IF settings.provider = "local-ollama" THEN SLocal ELSE STurbo

\* getProvider has returned an instance to the handler of request r
Entered(r) == Len(reg.done) >= r /\ reg.done[r].success

InitPair ==
    /\ InitCommon
    /\ settings \in { Settings("local-ollama", None, TRUE),
                      Settings("ollama-turbo", None, TRUE) }
    /\ installed = {"llama3"}

NextPair ==
    \/ \E c \in RegIds :
          reg.nops < Cardinality(ReqIds) /\ RegStart(c, "chat", PairSettings)
    \/ \E c \in RegIds : RegInitResume(c)
    \/ \E r \in ReqIds : Entered(r) /\ ChatStart(r, "llama3", CtxEmpty, "text")
    \/ \E r \in ReqIds : ReqListAnswer(r, "models")
    \/ \E r \in ReqIds : ReqListResume(r)
    \/ \E r \in ReqIds : ChatAccept(r)
    \/ \E r \in ReqIds : ChatFail(r, ErrGateway)
    \/ \E r \in ReqIds, f \in PairFrames :
          req[r].nframes < MaxPairFrames /\ ReadFrame(r, f)
    \/ \E r \in ReqIds : StreamEnd(r)
    \/ \E r \in ReqIds : StreamFail(r, ErrGateway)
    \/ \E r \in ReqIds : HandlerCatch(r)

SpecPair == InitPair /\ [][NextPair]_vars

(***************************************************************************)
(* Specification of one chat request whose caller may abandon the stream.  *)
(***************************************************************************)
NextAbandon ==
    \/ ChatStart(1, "llama3", CtxEmpty, "text")
    \/ ReqListAnswer(1, "models")
    \/ ReqListResume(1)
    \/ ChatAccept(1)
    \/ ChatFail(1, ErrGateway)
    \/ \E f \in PairFrames : ReadFrame(1, f)
    \/ StreamEnd(1)
    \/ StreamFail(1, ErrGateway)
    \/ HandlerCatch(1)
    \/ Abandon(1)

SpecAbandon == InitPair /\ [][NextAbandon]_vars

(***************************************************************************)
(* listModels, pullModel and deleteModel called on their own, through      *)
(* ollamaHandler.listModels (31-39) and the provider's methods.            *)
(***************************************************************************)
\* one returned listModels call: when it started, the list queries it sent,
\* the list it returned, whether that list came from the backend (now or
\* earlier), the backend state the list shows, the latest model change
\* that had been reported done when the call started, the call's place among
\* the calls started (ord) and the calls started when it returned (seen)
Returned(t, n, l, f, g, a, o, sn) ==
    [start |-> t, queries |-> n, result |-> l, fetched |-> f, gen |-> g,
     acked |-> a, ord |-> o, seen |-> sn, failed |-> FALSE, threw |-> FALSE]

Max(a, b) == IF a >= b THEN a ELSE b

\* a call runs on the first call slot that is free
FreeSlot(c) ==
    /\ calls[c].pc = "idle"
    /\ \A d \in CallIds : d < c => calls[d].pc # "idle"

\* listModels is called: localOllamaProvider.js 59-73, part_003 382-389.
\* Without an API key the cloud provider cannot be built: getProvider throws
\* and listModelsForProvider (533-541) returns [].
ListModelsStart(c) ==
    /\ FreeSlot(c)
    /\ started < MaxCalls
    /\ settings.provider # "legacy"
    /\ started' = started + 1
    /\ IF settings.provider = "ollama-turbo" /\ ~settings.key
       THEN /\ history' = Append(history,
                    Returned(now, 0, << >>, FALSE, gen.backend, gen.acked,
                             started + 1, started + 1))
            /\ UNCHANGED <<calls, isInitialized>>
       ELSE /\ isInitialized' = [isInitialized EXCEPT ![settings.provider] = TRUE]
            /\ IF settings.provider = "local-ollama" /\ CacheFresh(now)
               THEN /\ history' = Append(history,
                            Returned(now, 0, cachedModels.list, TRUE,
                                     gen.cached, gen.acked,
                                     started + 1, started + 1))
                    /\ UNCHANGED calls
               ELSE /\ calls' = [calls EXCEPT ![c] =
                            [IdleCall EXCEPT !.pc = "list_wait", !.op = "list",
                                             !.lm = SentQuery(now),
                                             !.acked = gen.acked,
                                             !.ord = started + 1]]
                    /\ UNCHANGED history
    /\ UNCHANGED <<shellVars, calc, now, settings, reg, req, cacheVars, backendVars>>

\* the backend answers the list query of a listModels call
CallListAnswer(c, kind) ==
    /\ calls[c].pc = "list_wait"
    /\ calls[c].lm.pc = "sent"
    /\ calls' = [calls EXCEPT ![c].lm = Answered(@, kind)]
    /\ UNCHANGED <<shellVars, calc, now, settings, reg, isInitialized, req, cacheVars, backendVars,
                   started, history>>

\* `await this.client.list()` resumes: localOllamaProvider.js 75-99,
\* part_003 391-445
ListModelsResume(c) ==
    /\ calls[c].pc = "list_wait"
    /\ calls[c].lm.pc = "answered"
    /\ LET q == calls[c].lm
           local == settings.provider = "local-ollama"
       IN /\ IF local /\ WritesCache(q)
             THEN /\ cachedModels' = Models(q.models)
                  /\ lastModelCheck' = q.now0
                  /\ gen' = [gen EXCEPT !.cached = q.gen]
             ELSE UNCHANGED <<cachedModels, lastModelCheck, gen>>
          /\ history' = Append(history,
                [Returned(q.now0, 1,
                          IF local THEN ListResult(q) ELSE TurboListResult(q),
                          q.ok /\ q.hasModels, q.gen, calls[c].acked,
                          calls[c].ord, started)
                 EXCEPT !.failed = ~q.ok, !.threw = ListModelsThrows(q)])
    /\ calls' = [calls EXCEPT ![c] = IdleCall]
    /\ UNCHANGED <<shellVars, calc, now, settings, reg, isInitialized, req, installed, started>>

\* pullModel / deleteModel is called: localOllamaProvider.js 102-111, 131-137
MutateStart(c, op, m) ==
    /\ FreeSlot(c)
    /\ started < MaxCalls
    /\ settings.provider = "local-ollama"
    /\ started' = started + 1
    /\ isInitialized' = [isInitialized EXCEPT !["local-ollama"] = TRUE]
    /\ calls' = [calls EXCEPT ![c] =
            [IdleCall EXCEPT !.pc = "mutate_wait", !.op = op, !.model = m]]
    /\ UNCHANGED <<shellVars, calc, now, settings, reg, req, cacheVars, backendVars, history>>

\* the backend pulls or deletes the model, or fails to (a model that is not
\* there cannot be deleted)
BackendMutate(c, ok) ==
    /\ calls[c].pc = "mutate_wait"
    /\ ok => (calls[c].op = "pull" \/ calls[c].model \in installed)
    /\ IF ok
       THEN /\ installed' = IF calls[c].op = "pull"
                            THEN installed \cup {calls[c].model}
                            ELSE installed \ {calls[c].model}
            /\ gen' = [gen EXCEPT !.backend = @ + 1]
       ELSE UNCHANGED <<installed, gen>>
    /\ calls' = [calls EXCEPT ![c].pc = "mutate_done", ![c].ok = ok,
                              ![c].acked = gen'.backend]
    /\ UNCHANGED <<shellVars, calc, now, settings, reg, isInitialized, req, cacheVars, started,
                   history>>

\* the await of pullModel / deleteModel resumes: localOllamaProvider.js
\* 119-128, 139-148
MutateResume(c) ==
    /\ calls[c].pc = "mutate_done"
    /\ IF calls[c].ok
       THEN /\ cachedModels' = NullModels
            /\ gen' = [gen EXCEPT !.acked = Max(@, calls[c].acked)]
       ELSE UNCHANGED <<cachedModels, gen>>
    /\ calls' = [calls EXCEPT ![c] = IdleCall]
    /\ UNCHANGED <<shellVars, calc, now, settings, reg, isInitialized, req, lastModelCheck,
                   installed, started, history>>

\* time passes: half a cache lifetime, or a little more
ClockSteps == {30000, 31000}

AdvanceClock(d) ==
    /\ now + d <= MaxCacheNow
    /\ now' = now + d
    /\ UNCHANGED <<shellVars, calc, settings, reg, isInitialized, req, cacheVars, backendVars,
                   callVars>>

\* the answers to the list queries of these runs: the models, or a failure
CacheAnswers == {"models", "error"}

InitCache ==
    /\ InitCommon
    /\ settings \in {st \in SettingsChoices :
                        st.provider # "legacy" /\ st.model = None}
    /\ installed = {"llama3"}

NextCache ==
    \/ \E c \in CallIds : ListModelsStart(c)
    \/ \E c \in CallIds, kind \in CacheAnswers : CallListAnswer(c, kind)
    \/ \E c \in CallIds : ListModelsResume(c)
    \/ \E c \in CallIds, op \in {"pull", "delete"}, m \in ModelIds :
          MutateStart(c, op, m)
    \/ \E c \in CallIds, ok \in BOOLEAN : BackendMutate(c, ok)
    \/ \E c \in CallIds : MutateResume(c)
    \/ \E d \in ClockSteps : AdvanceClock(d)

SpecCache == InitCache /\ [][NextCache]_vars

(***************************************************************************)
(* listModels with a backend that may never answer.  The event loop        *)
(* resumes a call whose list query was answered; `await this.client.list()`*)
(* (line 73, part_003 389) is raced against no timer, so nothing else       *)
(* resumes a call.                                                         *)
(***************************************************************************)
NextWait ==
    \/ \E c \in CallIds : ListModelsStart(c)
    \/ \E c \in CallIds, kind \in CacheAnswers : CallListAnswer(c, kind)
    \/ \E c \in CallIds : ListModelsResume(c)
    \/ \E d \in ClockSteps : AdvanceClock(d)

SpecWait ==
    /\ InitCache
    /\ [][NextWait]_vars
    /\ \A c \in CallIds : WF_vars(ListModelsResume(c))
    /\ \A d \in ClockSteps : WF_vars(AdvanceClock(d))


(***************************************************************************)
(* Specification of the factory: getProvider, chat requests and cleanup;    *)
(* the calls may overlap.                                                   *)
(***************************************************************************)
\* the calls made: the entry point and the settings passed
RegCalls ==
    ({"get"} \X {SLocal, SLocalModel, STurboNoKey})
    \cup ({"chat"} \X {STurbo, STurboNoKey, STurboPlaceholder})

InitReg ==
    /\ InitCommon
    /\ settings = Settings("local-ollama", None, TRUE)
    /\ installed = {"llama3"}

NextReg ==
    \/ \E c \in RegIds, call \in RegCalls : RegStart(c, call[1], call[2])
    \/ \E c \in RegIds : RegInitResume(c)
    \/ \E c \in RegIds : RegCleanupStart(c)
    \/ \E c \in RegIds : RegCleanupResume(c)
    \/ \E i \in 1..MaxRegOps : RegProviderCleanup(i)

SpecReg == InitReg /\ [][NextReg]_vars

(***************************************************************************)
(* Specification of the status calls: validateProvider and listModels       *)
(* through the factory; the calls may overlap.                              *)
(***************************************************************************)
ValCalls == {"validate", "list"} \X {SLocal, STurbo, STurboNoKey, SUnknown}

NextVal ==
    \/ \E c \in RegIds, call \in ValCalls :
          reg.nops < MaxValOps /\ RegStart(c, call[1], call[2])
    \/ \E c \in RegIds : RegInitResume(c)
    \/ \E c \in RegIds, kind \in AnswerKinds, e \in RegErrors : RegListAnswer(c, kind, e)
    \/ \E c \in RegIds : RegListResume(c)

SpecVal == InitReg /\ [][NextVal]_vars

(***************************************************************************)
(* The model table (src/README.md 218-270): BASE_MODEL_CONTEXT_SIZES and   *)
(* getModelContextSizes.                                                   *)
(***************************************************************************)
\* context: 131072 of the built-in entries
BASE_CONTEXT == 131072

\* config.context || 8192
DEFAULT_CUSTOM_CONTEXT == 8192

\* an entry of a model table; displayName "" and isCustom FALSE stand for a
\* property the entry does not have
Entry(c, v, b, d, k) ==
    [context |-> c, vision_supported |-> v, builtin_tools_supported |-> b,
     displayName |-> d, isCustom |-> k]

\* lines 218-237
BASE_MODEL_CONTEXT_SIZES ==
    [id \in {"default", "gpt-oss:20b", "gpt-oss:120b"} |->
        Entry(BASE_CONTEXT, FALSE, FALSE,
              CASE id = "gpt-oss:20b" -> "GPT-OSS 20B"
                [] id = "gpt-oss:120b" -> "GPT-OSS 120B"
                [] OTHER -> "",
              FALSE)]

\* a property of a user entry: set or not, and its value
Unset(v) == [set |-> FALSE, v |-> v]
SetTo(v) == [set |-> TRUE, v |-> v]

\* the user entries of the runs: each property unset, falsy or truthy
Configs ==
    [context : {Unset(0), SetTo(0), SetTo(4096)},
     vision_supported : {Unset(FALSE), SetTo(FALSE), SetTo(TRUE)},
     builtin_tools_supported : {Unset(FALSE), SetTo(TRUE)},
     displayName : {Unset(""), SetTo("Mine")}]

\* the ids of the user entries: a built-in id and an id of the user's own
CustomIds == {"gpt-oss:20b", "my-model"}

CustomTables == UNION {[S -> Configs] : S \in SUBSET CustomIds}

\* `x || d` for a number, a boolean, a string
OrNumber(x, d) == IF x.set /\ x.v # 0 THEN x.v ELSE d
OrBoolean(x, d) == IF x.set /\ x.v THEN x.v ELSE d
OrString(x, d) == IF x.set /\ x.v # "" THEN x.v ELSE d

CustomEntryBaseContext(modelId, config) ==
    Entry(OrNumber(config.context, BASE_CONTEXT),
          OrBoolean(config.vision_supported, FALSE),
          OrBoolean(config.builtin_tools_supported, FALSE),
          OrString(config.displayName, modelId),
          TRUE)

\* lines 252-258: the entry built for a user entry
CustomEntry(modelId, config) ==
    Entry(OrNumber(config.context, DEFAULT_CUSTOM_CONTEXT),
          OrBoolean(config.vision_supported, FALSE),
          OrBoolean(config.builtin_tools_supported, FALSE),
          OrString(config.displayName, modelId),
          TRUE)

\* line 247: `{ ...BASE_MODEL_CONTEXT_SIZES }` is a new object with the
\* built-in table's entries, not the built-in table itself
SpreadCopy(table) == [shared |-> FALSE, table |-> table]

\* lines 250-259: the assignments of the forEach, on the merged object
AssignAll(merged, customModels) ==
    [id \in (DOMAIN merged) \cup (DOMAIN customModels) |->
        IF id \in DOMAIN customModels THEN CustomEntry(id, customModels[id])
        ELSE merged[id]]

\* lines 246-262: the table returned, and the built-in table after the call
\* (the object the assignments were made on, if that was the built-in table)
getModelContextSizes(base, customModels) ==
    LET start == SpreadCopy(base)
        merged == AssignAll(start.table, customModels)
    IN [returned |-> merged, base |-> IF start.shared THEN merged ELSE base]

\* the call is made
GetModelContextSizes ==
    /\ calc.pc = "called"
    /\ LET r == getModelContextSizes(calc.base, calc.customModels)
       IN calc' = [calc EXCEPT !.pc = "returned", !.returned = r.returned,
                               !.base = r.base]
    /\ UNCHANGED <<shellVars, now, providerVars>>

InitCtx ==
    /\ InitState
    /\ settings = Settings("local-ollama", None, TRUE)
    /\ installed = {"llama3"}
    /\ \E t \in CustomTables :
          calc = [pc |-> "called", customModels |-> t,
                  base |-> BASE_MODEL_CONTEXT_SIZES,
                  returned |-> BASE_MODEL_CONTEXT_SIZES]

NextCtx == GetModelContextSizes

SpecCtx == InitCtx /\ [][NextCtx]_vars

(***************************************************************************)
(* cleanMessages (localOllamaProvider.js 330-385; part_003 637-692 is the  *)
(* same text).                                                             *)
(***************************************************************************)
\* messages of one cleanMessages call
MaxMsgs == 1

\* a part of an array content
TextPart(t) == [type |-> "text", text |-> t, url |-> ""]
ImagePart(u) == [type |-> "image_url", text |-> "", url |-> u]

\* msg.content: a string, an array of parts, or no content at all
StringContent(t) == [kind |-> "string", text |-> t, parts |-> << >>]
ArrayContent(ps) == [kind |-> "array", text |-> "", parts |-> ps]
NoContent == [kind |-> "none", text |-> "", parts |-> << >>]

\* a message: hasExtras says that it has the reasoning and isStreaming
\* properties; tool_calls and images are << >> when the property is absent
Message(role, content, extras, tcs) ==
    [role |-> role, content |-> content, hasExtras |-> extras,
     tool_calls |-> tcs, images |-> << >>]

DataUrl == "data:image/png;base64,QUJD"
RemoteUrl == "https://example.com/cat.png"

\* s.startsWith(p)
StartsWith(str, p) == Len(str) >= Len(p) /\ SubSeq(str, 1, Len(p)) = p

RECURSIVE BeforeComma(_)
BeforeComma(str) ==
    IF str = "" \/ Head(str) = "," THEN ""
    ELSE SubSeq(str, 1, 1) \o BeforeComma(Tail(str))

RECURSIVE AfterComma(_)
AfterComma(str) ==
    IF str = "" THEN ""
    ELSE IF Head(str) = "," THEN Tail(str) ELSE AfterComma(Tail(str))

\* url.split(',')[1] of a url that holds a comma
SplitSecond(url) == BeforeComma(AfterComma(url))

\* lines 346-353: the image handed to the backend for an image part
ImageOf(part) ==
    IF StartsWith(part.url, "data:") THEN SplitSecond(part.url) ELSE part.url

\* parts.filter(p => p.type === type)
RECURSIVE FilterParts(_, _)
FilterParts(parts, type) ==
    IF parts = << >> THEN << >>
    ELSE (IF parts[1].type = type THEN <<parts[1]>> ELSE << >>)
         \o FilterParts(Tail(parts), type)

\* parts.map(p => p.text).join(sep)
RECURSIVE JoinTexts(_, _)
JoinTexts(parts, sep) ==
    IF parts = << >> THEN ""
    ELSE parts[1].text \o (IF Len(parts) > 1 THEN sep ELSE "")
         \o JoinTexts(Tail(parts), sep)

\* the value of a digit string
RECURSIVE ParseInt(_, _)
ParseInt(str, acc) ==
    IF str = "" \/ Head(str) \notin Digits THEN acc
    ELSE ParseInt(Tail(str),
                  10 * acc + (CHOOSE d \in 0..9 : ToString(d) = SubSeq(str, 1, 1)))

RECURSIVE BeforeQuote(_)
BeforeQuote(str) ==
    IF str = "" \/ Head(str) = "\"" THEN ""
    ELSE SubSeq(str, 1, 1) \o BeforeQuote(Tail(str))

\* the members of the object text that JSONParses accepts, str being the
\* text behind "{" or ","
RECURSIVE ParseMembers(_)
ParseMembers(str) ==
    IF str = "" \/ Head(str) # "\"" THEN << >>
    ELSE LET k == BeforeQuote(Tail(str))
             v == Tail(DropKey(Tail(str)))
             w == DropDigits(v)
         IN << <<k, ParseInt(v, 0)>> >>
            \o (IF w # "" /\ Head(w) = "," THEN ParseMembers(Tail(w)) ELSE << >>)

\* lines 376-378: typeof arguments === 'string' ? JSON.parse(arguments)
\* : arguments, for an argument text that is an object text
ParsedArguments(arg) ==
    IF arg.kind = "text" THEN ArgObj(ParseMembers(Tail(arg.text))) ELSE arg

\* JSON.parse throws for the arguments of the tool call
ArgumentsThrow(arg) == arg.kind = "text" /\ ~JSONParses(arg.text)

RECURSIVE MapArguments(_)
MapArguments(tcs) ==
    IF tcs = << >> THEN << >>
    ELSE <<ParsedArguments(tcs[1])>> \o MapArguments(Tail(tcs))

RECURSIVE MapImages(_)
MapImages(parts) ==
    IF parts = << >> THEN << >>
    ELSE <<ImageOf(parts[1])>> \o MapImages(Tail(parts))

\* lines 338-359: a user message with an array content
UserArray(msg) ==
    IF msg.role = "user" /\ msg.content.kind = "array"
    THEN LET textParts == FilterParts(msg.content.parts, "text")
             imageParts == FilterParts(msg.content.parts, "image_url")
         IN [msg EXCEPT !.images = IF Len(imageParts) > 0 THEN MapImages(imageParts)
                                   ELSE @,
                        !.content = StringContent(JoinTexts(textParts, " "))]
    ELSE msg

ToStringContentStringify(msg) ==
    CASE msg.content.kind = "string" ->
            [msg EXCEPT !.content = StringContent("\"" \o msg.content.text \o "\"")]
      [] msg.content.kind = "array" ->
            [msg EXCEPT !.content =
                StringContent(JoinTexts(FilterParts(msg.content.parts, "text"), ""))]
      [] OTHER -> [msg EXCEPT !.content = StringContent("undefined")]

\* lines 362-368: the content is made a string
ToStringContent(msg) ==
    CASE msg.content.kind = "string" -> msg
      [] msg.content.kind = "array" ->
            [msg EXCEPT !.content =
                StringContent(JoinTexts(FilterParts(msg.content.parts, "text"), ""))]
      [] OTHER -> [msg EXCEPT !.content = StringContent("undefined")]

\* lines 332-384: the callback of messages.map, for a message whose
\* tool-call arguments JSON.parse accepts
CleanMessage(msg) ==
    LET m1 == ToStringContent(UserArray([msg EXCEPT !.hasExtras = FALSE]))
    IN [m1 EXCEPT !.tool_calls = MapArguments(@)]

\* cleanMessages throws: JSON.parse throws in the callback of a message
CleanThrows(msgs) ==
    \E i \in 1..Len(msgs) : \E k \in 1..Len(msgs[i].tool_calls) :
        ArgumentsThrow(msgs[i].tool_calls[k])

RECURSIVE MapClean(_)
MapClean(msgs) ==
    IF msgs = << >> THEN << >>
    ELSE <<CleanMessage(msgs[1])>> \o MapClean(Tail(msgs))

\* lines 330-385
cleanMessages(msgs) ==
    IF CleanThrows(msgs) THEN [threw |-> TRUE, messages |-> << >>]
    ELSE [threw |-> FALSE, messages |-> MapClean(msgs)]

\* the contents, and the tool-call arguments, of the messages of the runs
CleanContents ==
    { StringContent(""), StringContent("hi"), StringContent("a, b"),
      ArrayContent(<<TextPart("hi")>>),
      ArrayContent(<<TextPart("a"), TextPart("b")>>),
      ArrayContent(<<TextPart("see"), ImagePart(DataUrl)>>),
      ArrayContent(<<ImagePart(RemoteUrl), TextPart("a"), TextPart("b")>>),
      NoContent }

CleanToolCalls ==
    { << >>, <<ArgText("{\"a\":1}")>>, <<ArgObj(ObjA1)>>, <<ArgText("{}")>>,
      <<ArgText("{\"a\":12,\"b\":3}")>>, <<ArgText(TextOpen)>>, <<ArgText("")>> }

CleanInputs ==
    { Message(role, c, x, tcs) :
        role \in {"user", "assistant"}, c \in CleanContents,
        x \in BOOLEAN, tcs \in CleanToolCalls }

MessageLists == UNION {[1..n -> CleanInputs] : n \in 1..MaxMsgs}

\* cleanMessages is called on the messages
CleanCall ==
    /\ calc.pc = "called"
    /\ LET r == cleanMessages(calc.messages)
       IN calc' = [calc EXCEPT !.pc = IF r.threw THEN "threw" ELSE "cleaned",
                               !.once = r.messages]
    /\ UNCHANGED <<shellVars, now, providerVars>>

\* cleanMessages is called on what it returned
CleanAgain ==
    /\ calc.pc = "cleaned"
    /\ LET r == cleanMessages(calc.once)
       IN calc' = [calc EXCEPT !.pc = IF r.threw THEN "threw again" ELSE "recleaned",
                               !.twice = r.messages]
    /\ UNCHANGED <<shellVars, now, providerVars>>

InitClean ==
    /\ InitState
    /\ settings = Settings("local-ollama", None, TRUE)
    /\ installed = {"llama3"}
    /\ \E msgs \in MessageLists :
          calc = [pc |-> "called", messages |-> msgs, once |-> << >>,
                  twice |-> << >>]

NextClean == CleanCall \/ CleanAgain

SpecClean == InitClean /\ [][NextClean]_vars

(***************************************************************************)
(* The request OllamaTurboProvider.handleChatStream builds for client.chat *)
(* (part_003 474-536).                                                     *)
(***************************************************************************)
\* str.includes(sub)
Includes(str, sub) ==
    \E i \in 1..(Len(str) - Len(sub) + 1) : SubSeq(str, i, i + Len(sub) - 1) = sub

\* line 514
ModelSupportsDeepseekThinking(m) == Includes(m, "deepseek") /\ Includes(m, "v3")

\* line 515
ModelSupportsGptOssReasoning(m) == Includes(m, "gpt-oss")

ModelSupportsToolsAlways(m) == TRUE

\* line 516
ModelSupportsTools(m) == ~ModelSupportsDeepseekThinking(m)

\* lines 474-481: discoveredTools mapped to function tools
RECURSIVE PrepareTools(_)
PrepareTools(discovered) ==
    IF discovered = << >> THEN << >>
    ELSE <<[type |-> "function", name |-> discovered[1]]>>
         \o PrepareTools(Tail(discovered))

\* lines 502-536: apiParams.  A property that is not set is "absent";
\* thinkMode is "undefined", "true" or "false", reasoningEffort "" when the
\* settings do not hold it
ApiParams(m, thinkMode, reasoningEffort, discovered) ==
    LET tools == PrepareTools(discovered)
        effort == IF reasoningEffort # "" THEN reasoningEffort ELSE "medium"
    IN [model |-> m,
        stream |-> TRUE,
        think |-> IF ModelSupportsDeepseekThinking(m)
                  THEN IF thinkMode # "undefined" THEN thinkMode ELSE "true"
                  ELSE "absent",
        reasoning_effort |-> IF ModelSupportsGptOssReasoning(m) /\ effort # "off"
                             THEN effort ELSE "absent",
        hasTools |-> Len(tools) > 0 /\ ModelSupportsTools(m),
        tools |-> IF Len(tools) > 0 /\ ModelSupportsTools(m) THEN tools ELSE << >>]

\* the models, settings and discovered tools of the runs
ParamModels ==
    {"", "llama3", "gpt-oss:120b", "deepseek-v3.1:671b", "deepseek-r1:7b",
     "v3-deepseek-gpt-oss"}

ParamInputs ==
    [model : ParamModels,
     thinkMode : {"undefined", "true", "false"},
     reasoningEffort : {"", "off", "high"},
     discoveredTools : {<< >>, <<"read_file">>, <<"read_file", "search">>}]

\* the request is built
BuildApiParams ==
    /\ calc.pc = "called"
    /\ calc' = [calc EXCEPT !.pc = "built",
                            !.apiParams = ApiParams(calc.in.model, calc.in.thinkMode,
                                                    calc.in.reasoningEffort,
                                                    calc.in.discoveredTools)]
    /\ UNCHANGED <<shellVars, now, providerVars>>

InitParams ==
    /\ InitState
    /\ settings = Settings("ollama-turbo", None, TRUE)
    /\ installed = ModelIds
    /\ \E in \in ParamInputs :
          calc = [pc |-> "called", in |-> in,
                  apiParams |-> ApiParams("", "undefined", "", << >>)]

NextParams == BuildApiParams

SpecParams == InitParams /\ [][NextParams]_vars

(***************************************************************************)
(* utils.js: limitContentLength, the validations and the error responses.   *)
(***************************************************************************)
\* the longest maxLength passed
MaxLimit == 5

\* line 10: the default of maxLength
DEFAULT_MAX_LENGTH == 8000

\* line 41: MCP_CONFIG.LIMITS.DEFAULT_OUTPUT_LIMIT
DEFAULT_OUTPUT_LIMIT == 50000

\* a JavaScript value passed as content: null, undefined, a string or a
\* number
JsNull == [type |-> "null", s |-> "", n |-> 0]
JsUndefined == [type |-> "undefined", s |-> "", n |-> 0]
JsString(s) == [type |-> "string", s |-> s, n |-> 0]
JsNumber(n) == [type |-> "number", s |-> "", n |-> n]

\* !content (line 12): null, undefined, '' and 0 are falsy
Falsy(content) ==
    \/ content.type \in {"null", "undefined"}
    \/ content.type = "string" /\ content.s = ""
    \/ content.type = "number" /\ content.n = 0

\* String(content) (line 17)
String(content) ==
    CASE content.type = "string" -> content.s
      [] content.type = "number" -> ToString(content.n)
      [] OTHER -> content.type

\* str.substring(0, end), 0 <= end
Substring0(str, end) ==
    IF end >= Len(str) THEN str ELSE SubSeq(str, 1, end)

\* Math.max (line 25)
MathMax(a, b) == IF a >= b THEN a ELSE b

\* limitContentLength (10-27)
limitContentLength(content, maxLength) ==
    IF Falsy(content) THEN ""
    ELSE LET stringContent == String(content)
         IN IF Len(stringContent) <= maxLength THEN stringContent
            ELSE LET effectiveMaxLength == MathMax(maxLength, 3)
                 IN Substring0(stringContent, effectiveMaxLength - 3) \o "..."

\* settings.toolOutputLimit || DEFAULT_OUTPUT_LIMIT (128); 0 is unset
OutputLimit(toolOutputLimit) ==
    IF toolOutputLimit # 0 THEN toolOutputLimit ELSE DEFAULT_OUTPUT_LIMIT

\* createErrorResponse (127-132): the text of the error field
createErrorResponse(error, toolOutputLimit) ==
    limitContentLength(JsString(error), OutputLimit(toolOutputLimit))

\* the contents and the lengths passed
LimitContents ==
    {JsNull, JsUndefined, JsNumber(0), JsNumber(12345)}
    \cup {JsString(s) : s \in {"", "a", "abc", "abcd", "abcdefgh"}}

\* the call is made
LimitContentLength ==
    /\ calc.pc = "called"
    /\ calc' = [calc EXCEPT !.pc = "returned",
                            !.returned = limitContentLength(calc.content, calc.maxLength)]
    /\ UNCHANGED <<shellVars, now, providerVars>>

\* an error response is made of the same text under a tool output limit
CreateErrorResponse ==
    /\ calc.pc = "returned"
    /\ calc.content.type = "string"
    /\ calc' = [calc EXCEPT !.pc = "responded",
                            !.returned = createErrorResponse(calc.content.s, calc.maxLength)]
    /\ UNCHANGED <<shellVars, now, providerVars>>

InitLimit ==
    /\ InitState
    /\ settings = Settings("local-ollama", None, TRUE)
    /\ installed = {"llama3"}
    /\ \E content \in LimitContents, maxLength \in 0..MaxLimit \cup {DEFAULT_MAX_LENGTH} :
          calc = [pc |-> "called", content |-> content, maxLength |-> maxLength,
                  returned |-> ""]

NextLimit == LimitContentLength \/ CreateErrorResponse

SpecLimit == InitLimit /\ [][NextLimit]_vars

(***************************************************************************)
(* elicitationHandler.js: the pending map, the listener that                *)
(* setupElicitationHandlers installs on a client, handleElicitation and its *)
(* system-dialog fallback, cancelElicitation and clearOldElicitations.      *)
(***************************************************************************)
\* the clock moves in steps of one minute, up to MaxElicMinutes
MaxElicMinutes == 6
\* the elicitation events received
MaxElicitations == 1

\* line 167: the interval of the periodic cleanup; the clock's step
CLEANUP_INTERVAL == 60000

\* line 76: the timer handleElicitation arms
ELICITATION_TIMEOUT == 60000

\* line 155: clearOldElicitations' default maxAge
MAX_ELICITATION_AGE == 300000

TimeoutMessage == "Elicitation response timeout"

\* the elicitation events a client emits, one per slot, each with its own id
ElicSlots == 1..MaxElicitations
ElicitationId(e) == "el" \o ToString(e)
ElicitationIds == {ElicitationId(e) : e \in ElicSlots}

NoChoices == [present |-> FALSE, choices |-> << >>]
Choices(cs) == [present |-> TRUE, choices |-> cs]

\* the elicitations received: type and options.choices
Elicitations ==
    {[type |-> t, options |-> NoChoices] : t \in {"confirmation", "input", "survey"}}
    \cup {[type |-> "select", options |-> Choices(cs)] : cs \in {<< >>, <<"red", "blue">>}}

\* what the renderer sends on the response channel
RendererResponses == {[confirmed |-> "true"], [cancelled |-> "true"]}

\* a response given to the client
ErrorResponse(msg) == [error |-> msg]

\* the listener's run for one event: where it is suspended, the promise of
\* handleElicitation (settled: "no", "resolved" or "rejected"), the timer
\* (deadline, -1 when none is armed) and the once-listener on the response
\* channel
IdleElic ==
    [pc |-> "idle", el |-> [type |-> None, options |-> NoChoices],
     settled |-> "no", deadline |-> -1, listening |-> FALSE, calls |-> 0]

\* the module when loaded, and a client given to setupElicitationHandlers:
\* supports tells whether it has a respondToElicitation method
ElicInit(supports) ==
    [pc |-> "ready", supports |-> supports,
     pending |-> [i \in ElicitationIds |-> -1],
     h |-> [e \in ElicSlots |-> IdleElic],
     toRenderer |-> << >>,
     sent |-> << >>,
     cancelled |-> [i \in ElicitationIds |-> -1],
     unhandled |-> {}]

\* pendingElicitations.set(id, {..., timestamp: Date.now()}) (52-56)
PendingSet(pending, id, t) == [pending EXCEPT ![id] = t]

\* pendingElicitations.delete(id) (74, 80, 146, 159)
PendingDelete(pending, id) == [pending EXCEPT ![id] = -1]

\* pendingElicitations.has(id)
PendingHas(pending, id) == pending[id] # -1

\* getPendingElicitations (137-139): the ids of the values of the map
getPendingElicitations(pending) == {i \in ElicitationIds : PendingHas(pending, i)}

\* client.respondToElicitation(id, response) is called (29, 37): the call is
\* recorded whether or not its promise is later fulfilled
Respond(E, e, response, pc) ==
    [E EXCEPT !.sent = Append(@, [id |-> ElicitationId(e), response |-> response]),
              !.h[e].pc = pc, !.h[e].calls = @ + 1]

\* the listener after `await handleElicitation(...)` resolved (25-32)
AfterResolve(E, e, response) ==
    LET E1 == [E EXCEPT !.h[e].settled = "resolved"]
    IN IF E1.supports
       THEN Respond(E1, e, response, "respond_wait")
       ELSE [E1 EXCEPT !.h[e].pc = "done"]

\* the listener's catch (33-41), entered from the try block; settled tells
\* whether the exception is handleElicitation's rejection
ListenerCatch(E, e, msg) ==
    IF E.supports
    THEN Respond(E, e, ErrorResponse(msg), "catch_wait")
    ELSE [E EXCEPT !.h[e].pc = "done"]

AfterReject(E, e, msg) == ListenerCatch([E EXCEPT !.h[e].settled = "rejected"], e, msg)

\* handleElicitationWithDialog (93-132) up to its first await or its return:
\* "dialog" when dialog.showMessageBox is awaited, else the value returned
DialogStart(el) ==
    CASE el.type = "confirmation" -> [wait |-> TRUE, value |-> [none |-> "true"]]
      [] el.type = "input" -> [wait |-> FALSE, value |-> [value |-> "null", cancelled |-> "true"]]
      [] el.type = "select" /\ el.options.present -> [wait |-> TRUE, value |-> [none |-> "true"]]
      [] el.type = "select" -> [wait |-> FALSE, value |-> [value |-> "null", cancelled |-> "true"]]
      [] OTHER -> [wait |-> FALSE,
                   value |-> ErrorResponse("Unknown elicitation type: " \o el.type)]

\* the buttons a message box shows: Yes/No, or one per choice (Electron shows
\* a single OK button for an empty list)
Buttons(el) ==
    IF el.type = "confirmation" THEN 2
    ELSE IF Len(el.options.choices) = 0 THEN 1 ELSE Len(el.options.choices)

\* handleElicitationWithDialog after the message box closed with button idx
\* (106, 123-124); reading .value of a missing choice throws
DialogResult(el, idx) ==
    IF el.type = "confirmation"
    THEN [threw |-> FALSE, value |-> [confirmed |-> IF idx = 0 THEN "true" ELSE "false"]]
    ELSE IF idx + 1 <= Len(el.options.choices)
    THEN [threw |-> FALSE, value |-> [value |-> el.options.choices[idx + 1]]]
    ELSE [threw |-> TRUE, value |-> ErrorResponse("Cannot read properties of undefined (reading 'value')")]

\* the clock: time passes while a timer is armed or an entry is pending
\* (nothing of the module reads the clock otherwise)
ElicTick ==
    /\ elic.pc = "ready"
    /\ now < MaxElicMinutes * CLEANUP_INTERVAL
    /\ \/ getPendingElicitations(elic.pending) # {}
       \/ \E e \in ElicSlots : elic.h[e].deadline # -1
    /\ now' = now + CLEANUP_INTERVAL
    /\ UNCHANGED <<elic, mcp, modal, calc, providerVars>>

\* an 'elicitation' event arrives (21-25): handleElicitation stores it (52-56)
\* and either sends it to the renderer, arming the timer and the listener
\* (59-83), or falls back to the dialog (86)
ElicitationEvent(e, el, window) ==
    /\ elic.pc = "ready"
    /\ elic.h[e].pc = "idle"
    /\ \A d \in ElicSlots : d < e => elic.h[d].pc # "idle"
    /\ LET id == ElicitationId(e)
           E0 == [elic EXCEPT !.pending = PendingSet(@, id, now),
                              !.h[e].el = el]
           dlg == DialogStart(el)
       IN elic' =
            IF window
            THEN [E0 EXCEPT !.toRenderer = Append(@, id),
                            !.h[e].pc = "renderer_wait",
                            !.h[e].deadline = now + ELICITATION_TIMEOUT,
                            !.h[e].listening = TRUE]
            ELSE IF dlg.wait
            THEN [E0 EXCEPT !.h[e].pc = "dialog_wait"]
            ELSE AfterResolve(E0, e, dlg.value)
    /\ UNCHANGED <<now, mcp, modal, calc, providerVars>>

\* the renderer's message reaches the once-listener (78-82): the timer is
\* cleared, the id deleted and the promise resolved; resolving a promise the
\* timer already rejected does nothing
RendererResponse(e, response) ==
    /\ elic.pc = "ready"
    /\ elic.h[e].listening
    /\ LET E0 == [elic EXCEPT !.h[e].listening = FALSE, !.h[e].deadline = -1,
                              !.pending = PendingDelete(@, ElicitationId(e))]
       IN elic' = IF elic.h[e].settled = "no"
                  THEN AfterResolve(E0, e, response)
                  ELSE E0
    /\ UNCHANGED <<now, mcp, modal, calc, providerVars>>

\* the timer fires (73-76)
ElicitationTimeout(e) ==
    /\ elic.pc = "ready"
    /\ elic.h[e].deadline # -1
    /\ now >= elic.h[e].deadline
    /\ LET E0 == [elic EXCEPT !.h[e].deadline = -1,
                              !.pending = PendingDelete(@, ElicitationId(e))]
       IN elic' = AfterReject(E0, e, TimeoutMessage)
    /\ UNCHANGED <<now, mcp, modal, calc, providerVars>>

\* the message box closes (98-106, 116-124)
DialogAnswer(e, idx) ==
    /\ elic.pc = "ready"
    /\ elic.h[e].pc = "dialog_wait"
    /\ idx < Buttons(elic.h[e].el)
    /\ LET r == DialogResult(elic.h[e].el, idx)
       IN elic' = IF r.threw THEN AfterReject(elic, e, r.value.error)
                  ELSE AfterResolve(elic, e, r.value)
    /\ UNCHANGED <<now, mcp, modal, calc, providerVars>>

\* the promise of respondToElicitation settles: fulfilled, the listener is
\* over; rejected in the try block, the catch responds again (36-40);
\* rejected in the catch, the listener's own promise is rejected
RespondSettles(e, fulfilled) ==
    /\ elic.pc = "ready"
    /\ elic.h[e].pc \in {"respond_wait", "catch_wait"}
    /\ elic' =
         IF fulfilled THEN [elic EXCEPT !.h[e].pc = "done"]
         ELSE IF elic.h[e].pc = "respond_wait"
         THEN ListenerCatch(elic, e, "transport closed")
         ELSE [elic EXCEPT !.h[e].pc = "done", !.unhandled = @ \cup {e}]
    /\ UNCHANGED <<now, mcp, modal, calc, providerVars>>

\* cancelElicitation(id) (144-150); cancelled remembers how many responses
\* had been given when it returned true
cancelElicitation(id) ==
    /\ elic.pc = "ready"
    /\ PendingHas(elic.pending, id)
    /\ elic' = [elic EXCEPT !.pending = PendingDelete(@, id),
                            !.cancelled[id] = Len(elic.sent)]
    /\ UNCHANGED <<now, mcp, modal, calc, providerVars>>

\* the entries clearOldElicitations deletes (157-161)
Old(pending, t) ==
    {i \in ElicitationIds : PendingHas(pending, i) /\ t - pending[i] > MAX_ELICITATION_AGE}

\* the interval runs clearOldElicitations (155-167)
clearOldElicitations ==
    /\ elic.pc = "ready"
    /\ Old(elic.pending, now) # {}
    /\ elic' = [elic EXCEPT !.pending =
                   [i \in ElicitationIds |->
                       IF i \in Old(elic.pending, now) THEN -1 ELSE @[i]]]
    /\ UNCHANGED <<now, mcp, modal, calc, providerVars>>

InitElic ==
    /\ InitProviders
    /\ settings = Settings("local-ollama", None, TRUE)
    /\ installed = {"llama3"}
    /\ calc = NoCalc
    /\ \E supports \in BOOLEAN : elic = ElicInit(supports)
    /\ mcp = NoShell
    /\ modal = NoShell

NextElic ==
    \/ ElicTick
    \/ \E e \in ElicSlots, el \in Elicitations, window \in BOOLEAN :
          ElicitationEvent(e, el, window)
    \/ \E e \in ElicSlots, response \in RendererResponses : RendererResponse(e, response)
    \/ \E e \in ElicSlots : ElicitationTimeout(e)
    \/ \E e \in ElicSlots, idx \in 0..1 : DialogAnswer(e, idx)
    \/ \E e \in ElicSlots, fulfilled \in BOOLEAN : RespondSettles(e, fulfilled)
    \/ \E id \in ElicitationIds : cancelElicitation(id)
    \/ clearOldElicitations

SpecElic == InitElic /\ [][NextElic]_vars

(***************************************************************************)
(* The MCP handlers: getCachedResource / handleReadResource (part_000) and  *)
(* getCachedPrompt / handleGetPrompt (promptHandler.js), with the           *)
(* validations of utils.js.                                                 *)
(***************************************************************************)
\* the getCached... calls made
MaxMcpCalls == 2
\* the clock moves in steps of one minute, up to MaxMcpMinutes
MaxMcpMinutes == 5

\* utils.js 35-37
RESOURCE_CACHE_TTL == 60000
PROMPT_CACHE_TTL == 300000
CACHE_CLEANUP_INTERVAL == 300000

McpKinds == {"resource", "prompt"}

\* the time to live of an entry of resourceCache / promptCache
TTL(kind) ==
    IF kind = "resource" THEN RESOURCE_CACHE_TTL ELSE PROMPT_CACHE_TTL

\* the server ids and the resource URIs / prompt names passed; '' is not valid
ServerIds == {"", "s1"}
Names == {"", "n1"}

\* part_000 197, promptHandler.js 243-244 (the prompts are asked for without
\* arguments)
CacheKeyOf(kind, serverId, name) ==
    IF kind = "resource" THEN serverId \o ":" \o name
    ELSE serverId \o ":" \o name \o ":" \o "{}"

McpKeys == {CacheKeyOf(k, s, n) : k \in McpKinds, s \in ServerIds, n \in Names}

\* validateStringParam (utils.js 88-96)
validateStringParam(value, paramName) ==
    IF value = "" THEN [isValid |-> FALSE, error |-> "Invalid " \o paramName \o " provided"]
    ELSE [isValid |-> TRUE, error |-> ""]

\* validateServerConnection (utils.js 104-119)
validateServerConnection(serverId, mcpClients) ==
    LET serverValidation == validateStringParam(serverId, "server ID")
    IN IF ~serverValidation.isValid THEN serverValidation
       ELSE IF serverId \notin mcpClients
       THEN [isValid |-> FALSE,
             error |-> "Server " \o serverId \o " is not currently connected"]
       ELSE [isValid |-> TRUE, error |-> ""]

\* isClientDisconnectionError (utils.js 201-214), on the messages the client
\* fails with
isClientDisconnectionError(message) == Includes(message, "transport closed")

\* a result: an object with an error field, or the content
ErrorResult(text, disconnected) ==
    [hasError |-> TRUE, error |-> text, disconnected |-> disconnected, body |-> ""]
ContentResult(body) ==
    [hasError |-> FALSE, error |-> "", disconnected |-> FALSE, body |-> body]

\* !result.error (part_000 207, promptHandler.js 254)
NoError(result) == ~(result.hasError /\ result.error # "")

\* the messages of the validations and of the catch blocks
InvalidName(kind) ==
    IF kind = "resource" THEN "Invalid resource URI provided"
    ELSE "Invalid prompt name provided"
FailureText(kind, name, message) ==
    IF kind = "resource" THEN "Error reading resource \"" \o name \o "\": " \o message
    ELSE "Error getting prompt \"" \o name \o "\": " \o message

\* handleReadResource / handleGetPrompt up to the client call (part_000
\* 26-40, promptHandler.js 26-40): the error returned, or none
Validate(kind, name, serverId, mcpClients, limit) ==
    LET nameValidation ==
            validateStringParam(name, IF kind = "resource" THEN "resource URI"
                                      ELSE "prompt name")
        serverValidation == validateServerConnection(serverId, mcpClients)
    IN IF ~nameValidation.isValid
       THEN [ok |-> FALSE, result |-> ErrorResult(createErrorResponse(InvalidName(kind), limit), FALSE)]
       ELSE IF ~serverValidation.isValid
       THEN [ok |-> FALSE, result |-> ErrorResult(createErrorResponse(serverValidation.error, limit), FALSE)]
       ELSE [ok |-> TRUE, result |-> ContentResult("")]

\* what the client's promise settles with
ClientAnswers ==
    {[ok |-> TRUE, text |-> "hello"], [ok |-> FALSE, text |-> "boom"],
     [ok |-> FALSE, text |-> "transport closed"]}

\* handleReadResource / handleGetPrompt after the client call (part_000
\* 50-101, promptHandler.js 51-106)
Handled(kind, name, serverId, answer, limit) ==
    IF answer.ok
    THEN ContentResult(limitContentLength(JsString(answer.text), OutputLimit(limit)))
    ELSE IF isClientDisconnectionError(answer.text)
    THEN ErrorResult("Client for server " \o serverId \o " disconnected during operation", TRUE)
    ELSE ErrorResult(createErrorResponse(FailureText(kind, name, answer.text), limit), FALSE)

NoEntry == [present |-> FALSE, data |-> ContentResult(""), timestamp |-> 0]
CacheEntry(data, t) == [present |-> TRUE, data |-> data, timestamp |-> t]

\* cached && Date.now() - cached.timestamp < TTL (part_000 200,
\* promptHandler.js 247)
Fresh(kind, cached, t) == cached.present /\ t - cached.timestamp < TTL(kind)

StoreAlways(kind, cache, key, result, t) ==
    [cache EXCEPT ![kind][key] = CacheEntry(result, t)]

\* part_000 207-212, promptHandler.js 254-259
Store(kind, cache, key, result, t) ==
    IF NoError(result)
    THEN [cache EXCEPT ![kind][key] = CacheEntry(result, t)]
    ELSE cache

McpSlots == {1, 2}

IdleMcp ==
    [pc |-> "idle", kind |-> None, name |-> "", serverId |-> "", key |-> "",
     connected |-> FALSE, ord |-> 0, open |-> 0, last |-> 0]

McpInit(limit) ==
    [pc |-> "ready", toolOutputLimit |-> limit, mcpClients |-> {"s1"},
     cache |-> [k \in McpKinds |-> [key \in McpKeys |-> NoEntry]],
     ops |-> [c \in McpSlots |-> IdleMcp], done |-> << >>, nops |-> 0]

\* the last call of the same kind and key that returned, 0 when none
LastOf(done, kind, key) ==
    LET S == {i \in 1..Len(done) : done[i].kind = kind /\ done[i].key = key}
    IN IF S = {} THEN 0 ELSE CHOOSE i \in S : \A j \in S : j <= i

\* a call is over: what it returned and how
McpReturn(M, c, op, result, served, age) ==
    [M EXCEPT !.ops[c] = IdleMcp,
              !.done = Append(@, [kind |-> op.kind, key |-> op.key,
                                  name |-> op.name, serverId |-> op.serverId,
                                  connected |-> op.connected,
                                  result |-> result, served |-> served,
                                  age |-> age, last |-> op.last,
                                  open |-> op.open,
                                  alone |-> op.open = 0 /\ M.nops = op.ord])]

\* getCachedResource / getCachedPrompt is called (part_000 196-205,
\* promptHandler.js 241-252): a fresh entry is returned; otherwise the
\* handler validates and calls the client, or returns its error, which is
\* not stored
GetCached(c, kind, name, serverId) ==
    /\ mcp.pc = "ready"
    /\ mcp.ops[c].pc = "idle"
    /\ \A d \in McpSlots : d < c => mcp.ops[d].pc # "idle"
    /\ mcp.nops < MaxMcpCalls
    /\ LET key == CacheKeyOf(kind, serverId, name)
           cached == mcp.cache[kind][key]
           op == [IdleMcp EXCEPT !.kind = kind, !.name = name, !.serverId = serverId,
                                 !.key = key,
                                 !.connected = serverId \in mcp.mcpClients,
                                 !.ord = mcp.nops + 1,
                                 !.open = Cardinality({d \in McpSlots : mcp.ops[d].pc # "idle"}),
                                 !.last = LastOf(mcp.done, kind, key)]
           M0 == [mcp EXCEPT !.nops = @ + 1]
           v == Validate(kind, name, serverId, mcp.mcpClients, mcp.toolOutputLimit)
       IN mcp' =
            IF Fresh(kind, cached, now)
            THEN McpReturn(M0, c, op, cached.data, TRUE, now - cached.timestamp)
            ELSE IF ~v.ok
            THEN McpReturn([M0 EXCEPT !.cache = Store(kind, @, key, v.result, now)],
                           c, op, v.result, FALSE, 0)
            ELSE [M0 EXCEPT !.ops[c] = [op EXCEPT !.pc = "client_wait"]]
    /\ UNCHANGED <<now, elic, modal, calc, providerVars>>

\* client.readResource / client.getPrompt settles; the handler builds its
\* result and getCached... stores it when it has no error (part_000 205-214,
\* promptHandler.js 252-261)
ClientAnswer(c, answer) ==
    /\ mcp.pc = "ready"
    /\ mcp.ops[c].pc = "client_wait"
    /\ LET op == mcp.ops[c]
           result == Handled(op.kind, op.name, op.serverId, answer, mcp.toolOutputLimit)
       IN mcp' = McpReturn([mcp EXCEPT !.cache = Store(op.kind, @, op.key, result, now)],
                           c, op, result, FALSE, 0)
    /\ UNCHANGED <<now, elic, modal, calc, providerVars>>

\* the owner of mcpClients connects or drops a server
SetClients(clients) ==
    /\ mcp.pc = "ready"
    /\ clients # mcp.mcpClients
    /\ mcp' = [mcp EXCEPT !.mcpClients = clients]
    /\ UNCHANGED <<now, elic, modal, calc, providerVars>>

\* the entries the periodic cleanup deletes (part_000 168-173,
\* promptHandler.js 212-217)
Expired(kind, cache, t) ==
    {key \in McpKeys : cache[kind][key].present
                          /\ t - cache[kind][key].timestamp > TTL(kind)}

\* the interval of setupResourceCacheCleanup / setupPromptCacheCleanup runs
CacheCleanup(kind) ==
    /\ mcp.pc = "ready"
    /\ now > 0 /\ now % CACHE_CLEANUP_INTERVAL = 0
    /\ Expired(kind, mcp.cache, now) # {}
    /\ mcp' = [mcp EXCEPT !.cache[kind] =
                  [key \in McpKeys |->
                      IF key \in Expired(kind, mcp.cache, now) THEN NoEntry ELSE @[key]]]
    /\ UNCHANGED <<now, elic, modal, calc, providerVars>>

\* time passes
McpTick ==
    /\ mcp.pc = "ready"
    /\ now < MaxMcpMinutes * CLEANUP_INTERVAL
    /\ now' = now + CLEANUP_INTERVAL
    /\ UNCHANGED <<elic, mcp, modal, calc, providerVars>>

InitMcp ==
    /\ InitProviders
    /\ settings = Settings("local-ollama", None, TRUE)
    /\ installed = {"llama3"}
    /\ calc = NoCalc
    /\ elic = NoShell
    /\ \E limit \in {0, 2} : mcp = McpInit(limit)
    /\ modal = NoShell

NextMcp ==
    \/ \E c \in McpSlots, kind \in McpKinds, name \in Names, serverId \in ServerIds :
          GetCached(c, kind, name, serverId)
    \/ \E c \in McpSlots, answer \in ClientAnswers : ClientAnswer(c, answer)
    \/ \E clients \in SUBSET {"s1"} : SetClients(clients)
    \/ \E kind \in McpKinds : CacheCleanup(kind)
    \/ McpTick

SpecMcp == InitMcp /\ [][NextMcp]_vars

(***************************************************************************)
(* handleRefreshResources (part_000 118-153, part_001 99-134): the servers  *)
(* are asked one after the other, each raced against a timer.               *)
(***************************************************************************)
\* the servers in mcpClients
MaxServers == 2

\* part_000 129: the timer listResources() is raced against
LIST_TIMEOUT == 5000

\* how the client of a server behaves: it is null (the call throws), its
\* promise is fulfilled with a list of resources, with an object without a
\* list, with a list holding a null item (the map throws), is rejected, or
\* never settles
ClientBehaviours == {"null", "list", "no list", "bad item", "rejects", "never"}

ServerName(i) == "s" \o ToString(i)

\* the mcpClients objects passed, as the behaviours in Object.entries order
ClientSets ==
    UNION {[1..n -> ClientBehaviours] : n \in 0..MaxServers}

\* the resources a behaving client lists, after the map of lines 133-139
ServerResources(serverId) ==
    <<[uri |-> "file:///" \o serverId \o "/a", name |-> "a", serverId |-> serverId],
      [uri |-> "", name |-> "unnamed_resource", serverId |-> serverId]>>

TimeoutError == "listResources operation timed out"

RefreshInit(clients) ==
    [pc |-> "called", clients |-> clients, pos |-> 1,
     allResources |-> << >>, errors |-> << >>, deadline |-> -1,
     outcome |-> [i \in 1..Len(clients) |-> "none"],
     returned |-> [resources |-> << >>, errors |-> << >>, hasErrors |-> FALSE]]

\* the catch of lines 143-146: one entry is added to errors
Failed(M, how, message) ==
    [M EXCEPT !.errors = Append(@, [serverId |-> ServerName(M.pos), error |-> message]),
              !.outcome[M.pos] = how,
              !.pos = @ + 1]

\* lines 132-142: the resources of the server are added
Collected(M) ==
    [M EXCEPT !.allResources = @ \o ServerResources(ServerName(M.pos)),
              !.outcome[M.pos] = "ok",
              !.pos = @ + 1]

NoDeadline(t) == -1

\* the timer of line 129
Deadline(t) == t + LIST_TIMEOUT

\* the loop runs on (124-147) until a promise is awaited or, the servers
\* done, the function returns (149-152); a null client throws at once
RECURSIVE Advance(_, _)
Advance(M, t) ==
    IF M.pos > Len(M.clients)
    THEN [M EXCEPT !.pc = "returned", !.deadline = -1,
                   !.returned = [resources |-> M.allResources,
                                 errors |-> M.errors,
                                 hasErrors |-> Len(M.errors) > 0]]
    ELSE IF M.clients[M.pos] = "null"
    THEN Advance(Failed(M, "failed", "Cannot read properties of null (reading 'listResources')"), t)
    ELSE [M EXCEPT !.pc = "list_wait", !.deadline = Deadline(t)]

\* handleRefreshResources is called
RefreshStart ==
    /\ mcp.pc = "called"
    /\ mcp' = Advance(mcp, now)
    /\ UNCHANGED <<now, elic, modal, calc, providerVars>>

\* the promise of listResources() settles before the timer fired
ListResourcesSettles ==
    /\ mcp.pc = "list_wait"
    /\ LET b == mcp.clients[mcp.pos]
       IN /\ b # "never"
          /\ mcp' = CASE b = "list" -> Advance(Collected(mcp), now)
                      [] b = "no list" ->
                           Advance([mcp EXCEPT !.outcome[mcp.pos] = "ok", !.pos = @ + 1], now)
                      [] b = "bad item" ->
                           Advance(Failed(mcp, "failed", "Cannot read properties of null (reading 'uri')"), now)
                      [] OTHER -> Advance(Failed(mcp, "failed", "boom"), now)
    /\ UNCHANGED <<now, elic, modal, calc, providerVars>>

\* the timer fires first: the race is rejected
ListResourcesTimeout ==
    /\ mcp.pc = "list_wait"
    /\ mcp.deadline # -1
    /\ now >= mcp.deadline
    /\ mcp' = Advance(Failed(mcp, "timeout", TimeoutError), now)
    /\ UNCHANGED <<now, elic, modal, calc, providerVars>>

\* time passes while the function waits
RefreshTick ==
    /\ mcp.pc = "list_wait"
    /\ mcp.deadline # -1 => now < mcp.deadline
    /\ now < LIST_TIMEOUT * (MaxServers + 1)
    /\ now' = now + LIST_TIMEOUT
    /\ UNCHANGED <<elic, mcp, modal, calc, providerVars>>

InitRefresh ==
    /\ InitProviders
    /\ settings = Settings("local-ollama", None, TRUE)
    /\ installed = {"llama3"}
    /\ calc = NoCalc
    /\ elic = NoShell
    /\ \E clients \in ClientSets : mcp = RefreshInit(clients)
    /\ modal = NoShell

NextRefresh ==
    \/ RefreshStart
    \/ ListResourcesSettles
    \/ ListResourcesTimeout
    \/ RefreshTick

\* timers fire and time passes; nothing makes a client answer
SpecRefresh ==
    /\ InitRefresh /\ [][NextRefresh]_vars
    /\ WF_vars(RefreshStart)
    /\ WF_vars(ListResourcesTimeout)
    /\ WF_vars(RefreshTick)

(***************************************************************************)
(* ElicitationModal.jsx: the component's state (elicitations,               *)
(* activeElicitation), the listener its effect subscribes and the handlers  *)
(* of its buttons.                                                          *)
(***************************************************************************)
\* the mcp-elicitation-request messages received
MaxRequests == 3

RequestId(n) == "el" \o ToString(n)

\* the elicitation of a request; a select comes with its choices
ModalTypes == {"confirmation", "input", "select", "survey"}
Request(n, type) == [id |-> RequestId(n), type |-> type]

\* null / undefined
NoElicitation == [id |-> None, type |-> None]

\* a state update React has been handed and has not yet rendered
AppendUpdate(e) == [op |-> "append", e |-> e]
FilterUpdate(e) == [op |-> "filter", e |-> e]
ActiveUpdate(e) == [op |-> "active", e |-> e]

\* useState (10-11); sub is the activeElicitation the subscribed listener
\* closed over (16-38); responded lists the ids answered or cancelled, and
\* reshown those that became active again afterwards
ModalInit ==
    [pc |-> "mounted", elicitations |-> << >>, activeElicitation |-> NoElicitation,
     queue |-> << >>, sub |-> NoElicitation, arrived |-> 0, responded |-> << >>,
     reshown |-> {}]

\* prev.filter(e => e.id !== id) (53, 77, 101, 122)
RECURSIVE FilterOut(_, _)
FilterOut(list, id) ==
    IF list = << >> THEN << >>
    ELSE (IF Head(list).id # id THEN <<Head(list)>> ELSE << >>) \o FilterOut(Tail(list), id)

\* elicitations.find(e => e.id !== id) (58, 82, 106); undefined when none
Find(list, id) ==
    LET rest == FilterOut(list, id)
    IN IF rest = << >> THEN NoElicitation ELSE rest[1]

\* one update applied to the state
ApplyUpdate(st, u) ==
    CASE u.op = "append" -> [st EXCEPT !.elicitations = Append(@, u.e)]
      [] u.op = "filter" -> [st EXCEPT !.elicitations = FilterOut(@, u.e.id)]
      [] OTHER -> [st EXCEPT !.activeElicitation = u.e]

RECURSIVE ApplyAll(_, _)
ApplyAll(st, queue) ==
    IF queue = << >> THEN st
    ELSE ApplyAll(ApplyUpdate(st, Head(queue)), Tail(queue))

\* React renders: the queued updates are applied in order, and the effect,
\* its dependency activeElicitation having changed, subscribes a listener
\* that closes over the new value (16-38)
Rendered(st) ==
    LET next == ApplyAll(st, st.queue)
        active == next.activeElicitation
    IN [next EXCEPT !.queue = << >>, !.sub = active,
                    !.reshown = @ \cup (IF /\ active # NoElicitation
                                           /\ active # st.activeElicitation
                                           /\ \E k \in 1..Len(st.responded) :
                                                 st.responded[k] = active.id
                                        THEN {active.id} ELSE {})]

\* handleElicitationRequest (20-30), the listener subscribed at the time
ElicitationRequest(type) ==
    /\ modal.pc = "mounted"
    /\ modal.arrived < MaxRequests
    /\ LET e == Request(modal.arrived + 1, type)
       IN modal' = [modal EXCEPT
                       !.arrived = @ + 1,
                       !.queue = @ \o <<AppendUpdate(e)>>
                                   \o (IF modal.sub = NoElicitation
                                       THEN <<ActiveUpdate(e)>> ELSE << >>)]
    /\ UNCHANGED <<now, elic, mcp, calc, providerVars>>

\* React renders the updates the listener queued
Render ==
    /\ modal.pc = "mounted"
    /\ modal.queue # << >>
    /\ modal' = Rendered(modal)
    /\ UNCHANGED <<now, elic, mcp, calc, providerVars>>

\* the next elicitation the submit handlers choose (57-59, 81-83, 105-107)
NextActiveFind(list, id) == IF Len(list) > 1 THEN Find(list, id) ELSE NoElicitation

\* the next elicitation handleCancel chooses (125-127)
NextActiveCancel(list, id) == IF Len(list) > 1 THEN list[2] ELSE NoElicitation

\* a handler of the rendered modal runs, with the state of the last render:
\* the response is sent and the updates are rendered when the event is over
AfterHandler(st, next) ==
    LET e == st.activeElicitation
        st1 == [st EXCEPT !.responded = Append(@, e.id),
                          !.queue = <<ActiveUpdate(NoElicitation), FilterUpdate(e)>>
                                    \o (IF Len(st.elicitations) > 1
                                        THEN <<ActiveUpdate(next)>> ELSE << >>)]
    IN Rendered(st1)

\* the buttons the modal renders for the active elicitation (167-282)
SubmitHandler(type) ==
    CASE type = "confirmation" -> "handleConfirmation"
      [] type = "input" -> "handleInputSubmit"
      [] type = "select" -> "handleSelectSubmit"
      [] OTHER -> None
HasCancel(type) == type # "confirmation"

\* handleConfirmation, handleInputSubmit, handleSelectSubmit (40-108)
Submit(handler) ==
    /\ modal.pc = "mounted"
    /\ modal.queue = << >>
    /\ modal.activeElicitation # NoElicitation
    /\ SubmitHandler(modal.activeElicitation.type) = handler
    /\ modal' = AfterHandler(modal, NextActiveFind(modal.elicitations,
                                                  modal.activeElicitation.id))
    /\ UNCHANGED <<now, elic, mcp, calc, providerVars>>

\* handleCancel (110-128)
Cancel ==
    /\ modal.pc = "mounted"
    /\ modal.queue = << >>
    /\ modal.activeElicitation # NoElicitation
    /\ HasCancel(modal.activeElicitation.type)
    /\ modal' = AfterHandler(modal, NextActiveCancel(modal.elicitations,
                                                    modal.activeElicitation.id))
    /\ UNCHANGED <<now, elic, mcp, calc, providerVars>>

InitModal ==
    /\ InitProviders
    /\ settings = Settings("local-ollama", None, TRUE)
    /\ installed = {"llama3"}
    /\ calc = NoCalc
    /\ elic = NoShell
    /\ mcp = NoShell
    /\ modal = ModalInit

NextModal ==
    \/ \E type \in ModalTypes : ElicitationRequest(type)
    \/ Render
    \/ \E handler \in {"handleConfirmation", "handleInputSubmit", "handleSelectSubmit"} :
          Submit(handler)
    \/ Cancel

SpecModal == InitModal /\ [][NextModal]_vars

(***************************************************************************)
(* Properties.                                                             *)
(***************************************************************************)
\* the positions of the events of the given types, in the order sent
Positions(log, types) == {i \in 1..Len(log) : log[i].type \in types}

Count(log, types) == Cardinality(Positions(log, types))

RECURSIVE Select(_, _)
Select(log, types) ==
    IF log = << >> THEN << >>
    ELSE (IF log[1].type \in types THEN <<log[1]>> ELSE << >>)
         \o Select(Tail(log), types)

TerminalTypes == {"chat-stream-complete", "chat-stream-error"}
StreamTypes == {"chat-stream-content", "chat-stream-tool-calls",
                "chat-stream-complete"}

\* the request opened a stream
Opened(rq) == rq.streamId # None

\* handleChatStream has returned (and, had it thrown, the handler's catch ran)
Over(rq) == rq.pc = "returned"

RECURSIVE Concat(_)
Concat(strs) == IF strs = << >> THEN "" ELSE strs[1] \o Concat(Tail(strs))

\* all tool-call fragments of the frames, in arrival order
RECURSIVE Flatten(_)
Flatten(frames) ==
    IF frames = << >> THEN << >>
    ELSE frames[1].tool_calls \o Flatten(Tail(frames))

RECURSIVE WithId(_, _)
WithId(frags, id) ==
    IF frags = << >> THEN << >>
    ELSE (IF frags[1].id = id THEN <<frags[1]>> ELSE << >>)
         \o WithId(Tail(frags), id)

RECURSIVE Texts(_)
Texts(frags) ==
    IF frags = << >> THEN << >> ELSE <<frags[1].arg.text>> \o Texts(Tail(frags))

\* the record of the final tool-call set that carries the id
RecordOf(tcs, id) == tcs[CHOOSE i \in 1..Len(tcs) : tcs[i].id = id]

HasRecord(tcs, id) == \E i \in 1..Len(tcs) : tcs[i].id = id

\* the chat-stream-complete event of a log that holds one
CompleteOf(log) ==
    log[CHOOSE i \in 1..Len(log) : log[i].type = "chat-stream-complete"]

\* C1: every stream that was opened has, once its handler is over, exactly one
\* terminal event (chat-stream-complete or chat-stream-error), and that event
\* is the last event sent.
C1_ExactlyOneTerminalEvent ==
    \A r \in ReqIds :
        LET log == req[r].log
        IN /\ \A i \in 1..Len(log) : Terminal(log[i]) => i = Len(log)
           /\ (Over(req[r]) /\ Opened(req[r])) => Count(log, TerminalTypes) = 1

\* C2: in a completed stream, a tool-call id whose fragments all carry text
\* ends with the concatenation of those texts in arrival order, and an id
\* delivered once with a structured value ends with its JSON serialization.
C2_FragmentsConcatenated ==
    \A r \in ReqIds :
        req[r].outcome = "complete" =>
            LET final == CompleteOf(req[r].log).tool_calls
                frags == Flatten(req[r].read)
            IN \A id \in {"x", "y"} :
                LET mine == WithId(frags, id)
                IN /\ (Len(mine) > 0 /\ \A i \in 1..Len(mine) : mine[i].arg.kind = "text")
                        => /\ HasRecord(final, id)
                           /\ RecordOf(final, id).arguments = Concat(Texts(mine))
                   /\ (Len(mine) = 1 /\ mine[1].arg.kind = "object")
                        => /\ HasRecord(final, id)
                           /\ RecordOf(final, id).arguments = JSONStringify(mine[1].arg.obj)

\* C3: a request that is refused because its model cannot take the image it
\* carries has sent no list query and no chat call to the backend.
C3_NoBackendCallWhenUnsupported ==
    \A r \in ReqIds :
        req[r].outcome = "unsupported" =>
            /\ Count(req[r].log, {"chat-stream-error"}) = 1
            /\ req[r].listQueries = 0
            /\ req[r].chatCalls = 0

\* the second call started after the first had returned
Follows(a, b) == b.ord > a.seen

\* C4: of two listModels calls on one provider instance, the second starting
\* after the first returned its fetched list, with no model change reported
\* in between: if they start less than the cache lifetime apart they send at
\* most one list query between them, and if the second is the next call and
\* starts a lifetime or more after the first, they send exactly two.
C4_OneQueryPerLifetime ==
    \A i, j \in 1..Len(history) :
        LET a == history[i]
            b == history[j]
        IN (a.fetched /\ a.queries = 1 /\ Follows(a, b) /\ b.acked = a.acked)
            => /\ b.start - a.start < MODEL_CACHE_DURATION
                    => a.queries + b.queries <= 1
               /\ (b.ord = a.seen + 1 /\ b.start - a.start >= MODEL_CACHE_DURATION)
                    => a.queries + b.queries = 2

\* C5: a listModels call that starts after pullModel or deleteModel reported
\* success never returns a model list fetched before that change.
C5_NoListFromBeforeTheChange ==
    \A i \in 1..Len(history) :
        history[i].fetched => history[i].gen >= history[i].acked

\* C6: when the backend fails a chat of the cloud provider, the caller gets
\* exactly one chat-stream-error, whose text is the message the provider
\* prepared for that failure.
C6_ErrorTextIsTheProvidersMessage ==
    \A r \in ReqIds :
        (Over(req[r]) /\ req[r].provider = "ollama-turbo" /\ req[r].cause # NoErr)
            => LET errs == Select(req[r].log, {"chat-stream-error"})
               IN /\ Len(errs) = 1
                  /\ errs[1].error = TurboErrorMessage(req[r].cause)

\* C7: two streams of one session never carry the same id in their
\* chat-stream-start events.
C7_StreamIdsDistinct ==
    \A r1, r2 \in ReqIds :
        (r1 # r2 /\ Opened(req[r1]) /\ Opened(req[r2]))
            => Select(req[r1].log, {"chat-stream-start"})[1].id
               # Select(req[r2].log, {"chat-stream-start"})[1].id

\* C8: a request sends chat-stream-start at most once, a stream that was
\* opened sent it exactly once, and a content, tool-calls or complete event
\* is only ever sent after the start event, which is then the first event.
C8_StartOnceAndFirst ==
    \A r \in ReqIds :
        LET log == req[r].log
        IN /\ Count(log, {"chat-stream-start"}) <= 1
           /\ Opened(req[r]) => Count(log, {"chat-stream-start"}) = 1
           /\ \A i \in Positions(log, StreamTypes) :
                 i > 1 /\ log[1].type = "chat-stream-start"

C8_Witness ==
    \E r \in ReqIds :
        /\ req[r].outcome = "complete"
        /\ Count(req[r].log, {"chat-stream-content"}) > 0
        /\ Count(req[r].log, {"chat-stream-tool-calls"}) > 0
        /\ req[r].log[1].type = "chat-stream-start"

\* the content fragments of the frames, in arrival order
RECURSIVE Contents(_)
Contents(frames) ==
    IF frames = << >> THEN << >>
    ELSE (IF frames[1].content # "" THEN <<frames[1].content>> ELSE << >>)
         \o Contents(Tail(frames))

RECURSIVE EventContents(_)
EventContents(evs) ==
    IF evs = << >> THEN << >> ELSE <<evs[1].content>> \o EventContents(Tail(evs))

\* C9: at every moment the chat-stream-content events sent are, one for one
\* and in order, the content fragments of the frames read so far, and the
\* content of chat-stream-complete is their concatenation.
C9_ContentForwardedInOrder ==
    \A r \in ReqIds :
        LET log == req[r].log
            sent == EventContents(Select(log, {"chat-stream-content"}))
        IN /\ sent = Contents(req[r].read)
           /\ Count(log, {"chat-stream-complete"}) > 0
                 => CompleteOf(log).content = Concat(sent)

C9_Witness ==
    \E r \in ReqIds :
        /\ req[r].outcome = "complete"
        /\ Len(Contents(req[r].read)) >= 2
        /\ CompleteOf(req[r].log).content = "ab"

\* the frames that carry tool calls, in arrival order
RECURSIVE ToolFrames(_)
ToolFrames(frames) ==
    IF frames = << >> THEN << >>
    ELSE (IF Len(frames[1].tool_calls) > 0 THEN <<frames[1]>> ELSE << >>)
         \o ToolFrames(Tail(frames))

\* the calls the fragments stand for: one per id, one per fragment without id
CallsIn(frags) ==
    Cardinality({frags[i].id : i \in 1..Len(frags)} \ {None})
    + Cardinality({i \in 1..Len(frags) : frags[i].id = None})

IsPrefix(a, b) == Len(a) <= Len(b) /\ a = SubSeq(b, 1, Len(a))

\* C10: the k-th chat-stream-tool-calls event carries one record for every
\* call of the first k tool-call frames, the earlier event's records first.
C10_ToolCallsEventCarriesAll ==
    \A r \in ReqIds :
        LET evs == Select(req[r].log, {"chat-stream-tool-calls"})
            tfs == ToolFrames(req[r].read)
        IN /\ Len(evs) = Len(tfs)
           /\ \A k \in 1..Len(evs) :
                 LET frags == Flatten(SubSeq(tfs, 1, k))
                 IN /\ Len(evs[k].tool_calls) = CallsIn(frags)
                    /\ \A i \in 1..Len(frags) :
                          frags[i].id # None => HasRecord(evs[k].tool_calls, frags[i].id)
                    /\ k > 1 => IsPrefix(evs[k - 1].tool_calls, evs[k].tool_calls)

C10_Witness ==
    \E r \in ReqIds :
        LET evs == Select(req[r].log, {"chat-stream-tool-calls"})
        IN /\ Len(evs) >= 2
           /\ Len(evs[1].tool_calls) = 2
           /\ Len(evs[2].tool_calls) = 3

\* the last frame the request read
LastRead(rq) == rq.read[Len(rq.read)]

\* the finish reason the last frame calls for
ReportedReason(f) ==
    IF f.done_reason \notin {None, "stop"} THEN f.done_reason ELSE "stop"

\* C11: the chat-stream-complete event of a completed stream carries the
\* content accumulated from the frames, a tool-call field that is defined
\* exactly when a tool call was accumulated (and then holds the accumulated
\* calls), and the finish reason the last frame reports, "stop" if it
\* reports none.
C11_CompleteCarriesFinalState ==
    \A r \in ReqIds :
        req[r].outcome = "complete" =>
            LET ev == CompleteOf(req[r].log)
            IN /\ ev.content = Concat(Contents(req[r].read))
               /\ ev.has_tool_calls <=> Len(req[r].toolCalls) > 0
               /\ ev.tool_calls = req[r].toolCalls
               /\ ev.finish_reason = ReportedReason(LastRead(req[r]))

\* the texts the backend delivered as arguments that are not JSON themselves
BrokenTexts(frames) ==
    LET frags == Flatten(frames)
    IN {frags[i].arg.text : i \in {j \in 1..Len(frags) :
                                    /\ frags[j].arg.kind = "text"
                                    /\ ~JSONParses(frags[j].arg.text)}}

\* C12: every tool-call record sent in a chat-stream-tool-calls or
\* chat-stream-complete event has arguments that JSON.parse accepts, unless
\* the arguments are a text the backend itself delivered that is not JSON.
C12_ArgumentsAreJsonText ==
    \A r \in ReqIds :
        \A i \in 1..Len(req[r].log) :
            \A k \in 1..Len(req[r].log[i].tool_calls) :
                LET a == req[r].log[i].tool_calls[k].arguments
                IN a \notin BrokenTexts(req[r].read) => JSONParses(a)

\* C20: a request that sent a chat call to the backend sent it with the model
\* argument if one was given, else with settings.model if that is set, and
\* in every case with a model id that is not empty.
C20_ChatModelResolved ==
    \A r \in ReqIds :
        req[r].chatCalls > 0 =>
            /\ req[r].modelArg # None => req[r].model = req[r].modelArg
            /\ (req[r].modelArg = None /\ settings.model # None)
                    => req[r].model = settings.model
            /\ req[r].model # None

\* the list a local request got holds the model
Listed(rq) == \E i \in 1..Len(rq.avail) : rq.avail[i] = rq.model

\* C19: a request of the local provider that resolved a model which is not in
\* the model list obtained for it is over, has sent the pull-it-first error
\* as its only event, and has sent no chat call.
C19_UnlistedModelRefused ==
    \A r \in ReqIds :
        (req[r].provider = "local-ollama" /\ req[r].model # None /\ ~Listed(req[r]))
            => /\ Over(req[r])
               /\ req[r].log = <<ErrorEvent(NotFoundLocally(req[r].model))>>
               /\ req[r].chatCalls = 0

C19_Witness ==
    \E r \in ReqIds :
        /\ req[r].provider = "local-ollama"
        /\ req[r].model = "llava"
        /\ req[r].avail = <<"llama3">>
        /\ Over(req[r])

\* C16: no listModels call throws, and a call whose list query failed returns
\* the empty list or a list an earlier call returned.
C16_ListModelsNeverThrows ==
    \A i \in 1..Len(history) :
        /\ ~history[i].threw
        /\ history[i].failed
              => \/ history[i].result = << >>
                 \/ \E j \in 1..(i - 1) : history[j].result = history[i].result

\* a list query fails after an earlier call filled the cache, and one fails
\* on the provider that keeps no cache
C16_Witness ==
    \E i, j \in 1..Len(history) :
        /\ j < i
        /\ history[j].fetched
        /\ history[j].result # << >>
        /\ history[i].failed
        /\ history[i].queries = 1

\* the getProvider calls that returned an instance
Got(d) == d.kind = "get" /\ ~d.threw

\* two getProvider calls, the first overlapping no other call, the second
\* begun after the first returned, with the same settings (and so the same
\* provider id), no providers.clear() between their returns
SameKeyInTurn(a, b) ==
    /\ Got(a) /\ Got(b)
    /\ a.alone
    /\ Follows(a, b)
    /\ a.st = b.st
    /\ a.clears = b.clears

\* C13: of two successive getProvider calls with the same provider id and
\* settings that do not overlap (and no registry cleanup between them), the
\* second returns the instance the first returned without building or
\* initializing one: initialize() has run once on that instance.
C13_SameInstanceReused ==
    \A i, j \in 1..Len(reg.done) :
        SameKeyInTurn(reg.done[i], reg.done[j])
            => /\ reg.done[j].inst = reg.done[i].inst
               /\ ~reg.done[j].created
               /\ reg.insts[reg.done[i].inst].inits = 1

C13_Witness ==
    \E i, j \in 1..Len(reg.done) :
        /\ SameKeyInTurn(reg.done[i], reg.done[j])
        /\ reg.done[i].created
        /\ reg.done[j].inst = reg.done[i].inst

\* C14: the registry never holds two instances of one provider id.
C14_OneInstancePerProvider ==
    \A i, j \in 1..Len(reg.providers) :
        i # j => reg.insts[reg.providers[i].inst].pid
                 # reg.insts[reg.providers[j].inst].pid

\* C15: a provider whose cleanup() ran, once or twice, since it was last
\* initialized has no client and is not initialized; after a factory cleanup
\* the registry is empty with no current provider; after two factory
\* cleanups in a row the state is the one the first left; no cleanup throws.
C15_CleanupIdempotent ==
    /\ \A i \in 1..Len(reg.insts) :
          reg.insts[i].cleaned >= 1
             => ~reg.insts[i].hasClient /\ ~reg.insts[i].isInitialized
    /\ reg.cleanRun >= 1 => reg.providers = << >> /\ reg.current = 0
    /\ reg.cleanRun = 2 => Proj(reg) = reg.snap
    /\ \A i \in 1..Len(reg.done) :
          reg.done[i].kind = "cleanup" => ~reg.done[i].threw

\* two factory cleanups in a row after an instance was registered
C15_Witness ==
    /\ reg.cleanRun = 2
    /\ \E i \in 1..Len(reg.insts) :
          reg.insts[i].inits = 1 /\ reg.insts[i].cleaned >= 1

\* settings of the cloud provider without a usable API key
BadKey(st) ==
    /\ ProviderIdOf(st) = "ollama-turbo"
    /\ Field(st, "OLLAMA_API_KEY") \in {None, Placeholder}

\* C18: a chat request for the cloud provider whose API key is missing or
\* the placeholder sends the API-key message as its one event, a
\* chat-stream-error, sends nothing to the backend and does not throw; the
\* registry never holds an instance for such settings.
C18_MissingKeyRefused ==
    /\ \A i \in 1..Len(reg.done) :
          (reg.done[i].kind = "chat" /\ BadKey(reg.done[i].st))
             => /\ reg.done[i].log = <<ErrorEvent(ApiKeyMessage)>>
                /\ reg.done[i].queries = 0
                /\ ~reg.done[i].threw
    /\ \A k \in 1..Len(reg.providers) :
          ~BadKey(reg.insts[reg.providers[k].inst].st)

C18_Witness ==
    /\ \E i \in 1..Len(reg.done) :
          reg.done[i].kind = "chat" /\ reg.done[i].st = STurboPlaceholder
    /\ \E i \in 1..Len(reg.done) :
          reg.done[i].kind = "chat" /\ reg.done[i].st = STurboNoKey

\* C17: no validateProvider or listModels call through the factory throws;
\* validation without a known provider id or a usable key does not succeed,
\* a validation that did not succeed names its error, and a model listing
\* that failed is the empty list.
C17_StatusCallsNeverThrow ==
    \A i \in 1..Len(reg.done) :
        LET d == reg.done[i]
        IN d.kind \in {"validate", "list"}
            => /\ ~d.threw
               /\ (ProviderIdOf(d.st) \notin AvailableProviders \/ BadKey(d.st))
                     => ~d.success
               /\ (d.kind = "validate" /\ ~d.success) => d.error # ""
               /\ (d.kind = "list" /\ ~d.success) => d.list = << >>

\* a validation for an unknown provider id, and one the backend failed
C17_Witness ==
    /\ \E i \in 1..Len(reg.done) :
          /\ reg.done[i].kind = "validate"
          /\ reg.done[i].st = SUnknown
          /\ reg.done[i].error = "Unknown provider: groq"
    /\ \E i \in 1..Len(reg.done) :
          /\ reg.done[i].kind = "validate"
          /\ reg.done[i].queries = 1
          /\ ~reg.done[i].success

\* what a stream that read the frames has accumulated, on its own
RECURSIVE Replay(_, _, _)
Replay(acc, frames, t) ==
    IF frames = << >> THEN acc
    ELSE Replay([content |-> AppendContent(acc.content, frames[1].content),
                 toolCalls |-> Accumulate(acc.toolCalls, frames[1].tool_calls, t)],
                Tail(frames), t)

EmptyAccumulator == [content |-> "", toolCalls |-> << >>]

\* C21: when two streams run on one provider instance, whatever the order
\* in which their frames arrive, each stream has accumulated exactly what
\* its own frames give, and its chat-stream-complete event carries that
\* content and those tool calls.
C21_StreamsBuiltFromOwnFrames ==
    \A r \in ReqIds :
        LET own == Replay(EmptyAccumulator, req[r].read, now)
        IN /\ req[r].content = own.content
           /\ req[r].toolCalls = own.toolCalls
           /\ req[r].outcome = "complete"
                 => /\ CompleteOf(req[r].log).content = own.content
                    /\ CompleteOf(req[r].log).tool_calls = own.toolCalls

\* two streams that were open at the same time completed, each after two
\* frames, one with content and one with tool calls
C21_Witness ==
    /\ req[1].outcome = "complete" /\ req[2].outcome = "complete"
    /\ Len(req[1].read) = 2 /\ Len(req[2].read) = 2
    /\ req[1].content = "ab"
    /\ Len(req[2].toolCalls) = 2
    /\ 1 \notin req[2].after /\ 2 \notin req[1].after

\* C22: once its caller has abandoned a stream, no further event is sent
\* for it.
C22_NoEventsAfterAbandon ==
    \A r \in ReqIds :
        req[r].abandoned # -1 => Len(req[r].log) = req[r].abandoned

\* C23: every listModels call returns: a call that waits for the answer to
\* its list query is eventually over, whether or not the backend answers.
C23_ListModelsReturns ==
    \A c \in CallIds : (calls[c].pc = "list_wait") ~> (calls[c].pc = "idle")

\* request r2 arrived after request r1 had ended with a chat-stream-error
\* that a backend failure caused, and got the same provider instance
NextAfterFailure(r1, r2) ==
    /\ r1 \in req[r2].after
    /\ req[r1].cause # NoErr
    /\ Count(req[r1].log, {"chat-stream-error"}) = 1
    /\ reg.done[r1].inst = reg.done[r2].inst

\* C24: after a stream ended with chat-stream-error because the backend
\* failed, its provider instance is still initialized and still the one the
\* registry holds for its settings, and the next request on the instance
\* that opens a stream sends a start event first, accumulates from empty,
\* and sends content and tool-call events that follow from its own frames.
C24_InstanceReusableAfterError ==
    \A r1, r2 \in ReqIds :
        NextAfterFailure(r1, r2) =>
            LET key == CacheKey(ProviderIdOf(PairSettings), PairSettings)
                i == reg.done[r1].inst
                own == Replay(EmptyAccumulator, req[r2].read, now)
                log == req[r2].log
                tcs == Select(log, {"chat-stream-tool-calls"})
            IN /\ reg.insts[i].isInitialized /\ reg.insts[i].hasClient
               /\ isInitialized[req[r1].provider]
               /\ Cached(reg.providers, key)
               /\ InstanceOf(reg.providers, key) = i
               /\ Opened(req[r2]) =>
                     /\ log[1] = StartEvent(req[r2].streamId)
                     /\ req[r2].content = own.content
                     /\ req[r2].toolCalls = own.toolCalls
                     /\ EventContents(Select(log, {"chat-stream-content"}))
                            = Contents(req[r2].read)
                     /\ Len(tcs) > 0 => tcs[Len(tcs)].tool_calls = own.toolCalls

\* a stream that had accumulated content and a tool call failed, and the
\* next request on the instance completed a stream of its own
C24_Witness ==
    \E r1, r2 \in ReqIds :
        /\ NextAfterFailure(r1, r2)
        /\ req[r1].content # "" /\ Len(req[r1].toolCalls) > 0
        /\ req[r2].outcome = "complete"
        /\ req[r2].content = "ab"

\* C25: the table getModelContextSizes returns has, for every user entry,
\* an entry under the same id built from the user entry alone, in which a
\* property the user entry leaves unset is the conservative default
\* (context 8192, no vision, no built-in tools) and a property it sets to a
\* truthy value is that value; every built-in entry without a user entry is
\* returned as it is; no other id is in the table; the built-in table is
\* as it was.
C25_UserEntriesOverride ==
    calc.pc = "returned" =>
        LET custom == calc.customModels
            out == calc.returned
        IN /\ DOMAIN out = (DOMAIN BASE_MODEL_CONTEXT_SIZES) \cup (DOMAIN custom)
           /\ \A id \in DOMAIN custom :
                 LET u == custom[id]
                     e == out[id]
                 IN /\ e.isCustom
                    /\ ~u.context.set => e.context = DEFAULT_CUSTOM_CONTEXT
                    /\ ~u.vision_supported.set => ~e.vision_supported
                    /\ ~u.builtin_tools_supported.set => ~e.builtin_tools_supported
                    /\ (u.context.set /\ u.context.v # 0) => e.context = u.context.v
                    /\ u.vision_supported.set => e.vision_supported = u.vision_supported.v
                    /\ u.builtin_tools_supported.set
                          => e.builtin_tools_supported = u.builtin_tools_supported.v
                    /\ e.displayName = IF u.displayName.set THEN u.displayName.v ELSE id
           /\ \A id \in (DOMAIN BASE_MODEL_CONTEXT_SIZES) \ (DOMAIN custom) :
                 out[id] = BASE_MODEL_CONTEXT_SIZES[id]
           /\ calc.base = BASE_MODEL_CONTEXT_SIZES

\* a user entry with nothing set replaced a built-in entry, beside a user
\* entry of the user's own id
C25_Witness ==
    /\ calc.pc = "returned"
    /\ DOMAIN calc.customModels = CustomIds
    /\ ~calc.customModels["gpt-oss:20b"].context.set
    /\ ~calc.customModels["gpt-oss:20b"].displayName.set
    /\ calc.returned["gpt-oss:20b"].context = DEFAULT_CUSTOM_CONTEXT
    /\ calc.returned["gpt-oss:20b"].displayName = "gpt-oss:20b"
    /\ calc.returned["my-model"].context = 4096

\* the content is one text: a string, or an array of one text part
PureText(msg) ==
    /\ msg.tool_calls = << >>
    /\ \/ msg.content.kind = "string"
       \/ /\ msg.content.kind = "array"
          /\ Len(msg.content.parts) = 1
          /\ msg.content.parts[1].type = "text"

\* the text of such a content
OriginalText(msg) ==
    IF msg.content.kind = "string" THEN msg.content.text
    ELSE msg.content.parts[1].text

BetweenCheckAndWrite(c) ==
    /\ calls[c].pc = "list_wait"
    /\ calls[c].lm.pc = "answered"
    /\ WritesCache(calls[c].lm)

\* C27: while a listModels call of the local provider is between its
\* freshness check and its write of the cache, no step of another task
\* changes the cache slot (cachedModels, lastModelCheck).
C27_CheckAndWriteAtomic ==
    [][\A c \in CallIds :
          (BetweenCheckAndWrite(c) /\ calls'[c] = calls[c])
             => UNCHANGED cacheVars]_vars

\* the ids of the records are pairwise distinct
DistinctIds(tcs) ==
    \A i, j \in 1..Len(tcs) : i # j => tcs[i].id # tcs[j].id

\* the records whose id was synthesized
Synthesized(tcs) == {i \in 1..Len(tcs) : StartsWith(tcs[i].id, "tool_")}

RECURSIVE IdsOf(_)
IdsOf(tcs) == IF tcs = << >> THEN << >> ELSE <<tcs[1].id>> \o IdsOf(Tail(tcs))

\* C29: two runs that read the same frame sequence in a stream of the same
\* id hold records with the same ids.
C29_SynthesizedIdsDeterministic ==
    \A r1, r2 \in ReqIds :
        (/\ Opened(req[r1]) /\ Opened(req[r2])
         /\ req[r1].streamId = req[r2].streamId
         /\ req[r1].read = req[r2].read)
            => IdsOf(req[r1].toolCalls) = IdsOf(req[r2].toolCalls)

\* C30: no request of the cloud provider carries both think: true and a
\* tools list, and a request for a model of the thinking family carries no
\* tools list.
C30_NoToolsWithThink ==
    calc.pc = "built" =>
        /\ ~(calc.apiParams.think = "true" /\ calc.apiParams.hasTools)
        /\ ModelSupportsDeepseekThinking(calc.in.model)
              => ~calc.apiParams.hasTools /\ calc.apiParams.tools = << >>

\* a request for a thinking model with tools discovered, think left at its
\* default
C30_Witness ==
    /\ calc.pc = "built"
    /\ calc.in.model = "deepseek-v3.1:671b"
    /\ calc.in.thinkMode = "undefined"
    /\ Len(calc.in.discoveredTools) = 2
    /\ calc.apiParams.think = "true"

\* the calls that were given an instance built for the same cache key, with
\* no providers.clear() between their returns
SameKey(a, b) ==
    /\ Got(a) /\ Got(b)
    /\ a.st = b.st
    /\ a.clears = b.clears

\* C31: whatever the overlap of the getProvider calls, the callers that pass
\* the same provider id and settings are given the same instance, and only
\* one instance is built and initialized for that key.
C31_OneInstancePerKey ==
    \A i, j \in 1..Len(reg.done) :
        SameKey(reg.done[i], reg.done[j])
            => /\ reg.done[j].inst = reg.done[i].inst
               /\ i # j => ~(reg.done[i].created /\ reg.done[j].created)

\* C32: once the promise of handleElicitation has settled, the elicitation's
\* id is not in the pending map.
C32_SettledNotPending ==
    elic.pc = "ready" =>
        \A e \in ElicSlots :
            elic.h[e].settled # "no"
                => ~PendingHas(elic.pending, ElicitationId(e))

\* C33: respondToElicitation is called at most once for an elicitation, and
\* exactly once when the listener is over and the client supports it.
C33_RespondedExactlyOnce ==
    elic.pc = "ready" =>
        \A e \in ElicSlots :
            /\ elic.h[e].calls <= 1
            /\ (elic.h[e].pc = "done" /\ elic.supports) => elic.h[e].calls = 1

\* C34: after cancelElicitation(id) returned true the id is not pending and
\* no response for it is given to the client.
C34_NoResponseAfterCancel ==
    elic.pc = "ready" =>
        \A id \in ElicitationIds :
            elic.cancelled[id] # -1
                => /\ id \notin getPendingElicitations(elic.pending)
                   /\ \A k \in 1..Len(elic.sent) :
                         k > elic.cancelled[id] => elic.sent[k].id # id

\* the text the call was given, as a string
GivenText == String(calc.content)

\* C38: limitContentLength returns a string no longer than maxLength: the
\* input when it fits, else a prefix of it followed by '...'; null, undefined
\* and the empty string give the empty string.
C38_NeverLongerThanMax ==
    (calc.pc = "returned" /\ "content" \in DOMAIN calc) =>
        /\ Len(calc.returned) <= calc.maxLength
        /\ (calc.content.type \in {"null", "undefined"} \/ calc.content = JsString(""))
              => calc.returned = ""
        /\ (~Falsy(calc.content) /\ Len(GivenText) <= calc.maxLength)
              => calc.returned = GivenText
        /\ (~Falsy(calc.content) /\ Len(GivenText) > calc.maxLength)
              => \E k \in 0..Len(GivenText) :
                    calc.returned = Substring0(GivenText, k) \o "..."

\* the call b was the next with its key after the call a returned, and
\* neither overlapped another call
NextInTurn(a, b) ==
    /\ b.last # 0 /\ mcp.done[b.last] = a
    /\ a.alone /\ b.alone

\* C35: the caches of getCachedResource and getCachedPrompt hold no result
\* with an error field; the call that follows a call that returned an error,
\* with the same key, is not served from the cache; and a result is served
\* from the cache only while its age is below the time to live of its cache.
C35_ErrorsNeverCached ==
    mcp.pc = "ready" =>
        /\ \A kind \in McpKinds, key \in McpKeys :
              mcp.cache[kind][key].present => NoError(mcp.cache[kind][key].data)
        /\ \A i, j \in 1..Len(mcp.done) :
              (NextInTurn(mcp.done[i], mcp.done[j]) /\ ~NoError(mcp.done[i].result))
                  => ~mcp.done[j].served
        /\ \A i \in 1..Len(mcp.done) :
              mcp.done[i].served
                  => /\ mcp.done[i].age < TTL(mcp.done[i].kind)
                     /\ NoError(mcp.done[i].result)

\* a call to a connected server returned an error, and the next call with
\* its key asked the client again, got the content and stored it
C35_Witness ==
    /\ mcp.pc = "ready"
    /\ \E i, j \in 1..Len(mcp.done) :
          /\ NextInTurn(mcp.done[i], mcp.done[j])
          /\ ~NoError(mcp.done[i].result)
          /\ mcp.done[i].connected
          /\ ~mcp.done[j].served
          /\ NoError(mcp.done[j].result)
          /\ mcp.cache[mcp.done[j].kind][mcp.done[j].key].present

\* C36: a call made while mcpClients holds no client for serverId returns
\* no content: its result is an error, the 'not currently connected' one
\* when the URI or prompt name is valid.
C36_NoContentWhenDisconnected ==
    mcp.pc = "ready" =>
        \A i \in 1..Len(mcp.done) :
            (mcp.done[i].serverId # "" /\ ~mcp.done[i].connected)
                => /\ ~NoError(mcp.done[i].result)
                   /\ mcp.done[i].name # "" => mcp.done[i].result.error \in
                         {createErrorResponse("Server " \o mcp.done[i].serverId
                                                 \o " is not currently connected", l) : l \in {0, 2}}

\* the resources of the servers that answered, in the order asked
RECURSIVE ResourcesOf(_, _)
ResourcesOf(outcome, i) ==
    IF i > Len(outcome) THEN << >>
    ELSE (IF outcome[i] = "ok" /\ mcp.clients[i] = "list"
          THEN ServerResources(ServerName(i)) ELSE << >>)
         \o ResourcesOf(outcome, i + 1)

\* the servers that failed or timed out, in the order asked
RECURSIVE FailedServers(_, _)
FailedServers(outcome, i) ==
    IF i > Len(outcome) THEN << >>
    ELSE (IF outcome[i] \in {"failed", "timeout"} THEN <<ServerName(i)>> ELSE << >>)
         \o FailedServers(outcome, i + 1)

ErrorServers(errors) == [k \in 1..Len(errors) |-> errors[k].serverId]

RefreshReturned ==
    /\ mcp.pc = "returned"
    /\ \A i \in 1..Len(mcp.clients) :
          /\ mcp.outcome[i] # "none"
          /\ mcp.clients[i] = "null" => mcp.outcome[i] = "failed"
          /\ mcp.clients[i] \in {"bad item", "rejects"} => mcp.outcome[i] # "ok"
          /\ mcp.clients[i] = "never" => mcp.outcome[i] = "timeout"
    /\ ErrorServers(mcp.returned.errors) = FailedServers(mcp.outcome, 1)
    /\ mcp.returned.resources = ResourcesOf(mcp.outcome, 1)

\* C37: handleRefreshResources returns whatever the clients do, also when a
\* listResources() never settles; when it has returned, every server that
\* failed or timed out has exactly one entry in errors and the resources of
\* all the servers that answered have been collected.
C37_RefreshAlwaysReturns ==
    /\ [](mcp.pc = "returned" => RefreshReturned)
    /\ <>(mcp.pc = "returned")

\* a server that never answers, followed by one that lists its resources
C37_Witness ==
    /\ mcp.pc = "returned"
    /\ Len(mcp.clients) = 2
    /\ mcp.clients[1] = "never" /\ mcp.clients[2] = "list"
    /\ Len(mcp.returned.errors) = 1
    /\ mcp.returned.errors[1].error = TimeoutError
    /\ Len(mcp.returned.resources) = 2

\* C39: in the rendered modal, a non-empty list of elicitations has an
\* active elicitation and it is the oldest of the list; an elicitation that
\* was answered or cancelled is out of the list and is not active again.
C39_OneAtATimeInOrder ==
    (modal.pc = "mounted" /\ modal.queue = << >>) =>
        /\ modal.elicitations # << >>
              => modal.activeElicitation = modal.elicitations[1]
        /\ modal.reshown = {}
        /\ \A k \in 1..Len(modal.responded) :
              /\ modal.activeElicitation.id # modal.responded[k]
              /\ \A j \in 1..Len(modal.elicitations) :
                    modal.elicitations[j].id # modal.responded[k]

====
